---- MODULE Spec2Model ----
(***************************************************************************)
(* CraftCom: the rate limiter (pkg/gemini/models.go), the chat session     *)
(* (pkg/gemini/chat.go), the command validator and executor                *)
(* (pkg/types) and the confirmation step of the CLI (cmd/craftcom).        *)
(*                                                                         *)
(* Time is counted in ticks of 1/TicksPerSecond second, so that the        *)
(* rounding done by the "%.0f" verbs of the limiter's messages is a real   *)
(* conversion.  The statements of one locked critical section happen       *)
(* within one tick.                                                        *)
(***************************************************************************)
EXTENDS Integers, Sequences, FiniteSets, TLC

VARIABLES
    now,          \* the clock, time.Now(), in ticks
    steps,        \* clock advances, TrackTokens and Reset calls so far
    limiter,      \* the RateLimiter of one model
    lastCall,     \* the last call on the limiter API and what it returned
    windowAdmits, \* admissions since the minute window was last rolled
    admissions,   \* the instants of the admissions of the last minute
    dayAdmits,    \* admissions since the day window was last rolled
    mu,           \* RateLimiter.mu: the caller that holds it, or Unlocked
    pc,           \* where each concurrent caller is in CheckLimit
    ret,          \* what CheckLimit last returned to each concurrent caller
    waits,        \* each caller's WaitForAvailability: its deadline, its polls
    rw,           \* the sync.RWMutex of a Provider or of a Config
    providers,    \* Config.Providers
    ctx,          \* Chat.currentContext
    history,      \* Chat.history
    inflight,     \* the Send or SendWithFiles call waiting for the backend
    sent,         \* the requests the backend has received
    returned,     \* what the last Send or SendWithFiles returned
    turns,        \* calls of Send and SendWithFiles so far
    inputErrors,  \* calls that returned an input error so far
    goos,         \* runtime.GOOS
    command,      \* the command under consideration
    verdict,      \* what ValidateCommand last returned for it
    executor,     \* the CommandExecutor: its history
    started,      \* the commands handed to the shell, with what came of them
    lastExec,     \* the last confirmation prompt or Execute call, and its result
    modelOutput,  \* the content of a backend reply handed to the extractor
    extracted,    \* what extractCommandAndOutput returned for it
    rateLimiters, \* Provider.rateLimiters: the limiter of each model
    chats,        \* the chat sessions the provider has created
    acted,        \* the session that made the last Send, 0 when none did
    opened        \* the last Provider.Chat call and what it returned

clockVars == <<now, steps>>
limiterVars == <<limiter, lastCall, windowAdmits, admissions, dayAdmits>>
lockVars == <<rw, providers>>
callerVars == <<mu, pc, ret, waits, lockVars>>
sessionVars == <<ctx, history, inflight, sent, returned, turns, inputErrors>>
execVars == <<goos, command, verdict, executor, started, lastExec>>
extractVars == <<modelOutput, extracted>>
providerVars == <<rateLimiters, chats, acted, opened>>
otherVars == <<sessionVars, execVars, extractVars, providerVars>>

vars == <<now, steps, limiter, lastCall, windowAdmits, admissions, dayAdmits,
          mu, pc, ret, waits, rw, providers,
          ctx, history, inflight, sent, returned, turns, inputErrors,
          goos, command, verdict, executor, started, lastExec,
          modelOutput, extracted, rateLimiters, chats, acted, opened>>

----------------------------------------------------------------------------
(* Bounds of the model *)

TicksPerSecond == 2
MaxSteps == 4
MaxTicks == 1
NumCallers == 2
RPM == 2
TPM == 3
RPD == 3

(* Program constants *)

HistoryCap == 1000

Second == TicksPerSecond
Minute == 60 * Second
Hour == 60 * Minute
Day == 24 * Hour

\* the instants at which the limiter may be constructed and the amounts
\* by which the clock advances between two calls
StartTimes == {0, 50 * Second}
Steps == {Minute - 1, Minute, Day}
TokenAmounts == {1, TPM}

----------------------------------------------------------------------------
(* time.Time and fmt helpers *)

\* time.Time.Truncate(d): round t down to a multiple of d since the zero time
Truncate(t, d) == t - (t % d)

\* fmt's "%.0f" of the quotient n / d: round to nearest, ties to even
FormatF0(n, d) ==
    LET q == n \div d
        r == n % d
    IN  IF 2 * r < d THEN q
        ELSE IF 2 * r > d THEN q + 1
        ELSE IF q % 2 = 0 THEN q ELSE q + 1

----------------------------------------------------------------------------
(* Strings are sequences of one-character strings; the functions of Go's  *)
(* strings package that the program uses.                                 *)

\* unicode.IsSpace, for the characters that occur in the model
IsSpace(c) == c \in {" ", "\t", "\n", "\r", "\f"}

UpperLetters == <<"A","B","C","D","E","F","G","H","I","J","K","L","M","N","O",
          "P","Q","R","S","T","U","V","W","X","Y","Z">>
LowerLetters == <<"a","b","c","d","e","f","g","h","i","j","k","l","m","n","o",
          "p","q","r","s","t","u","v","w","x","y","z">>

ToLowerChar(c) ==
    IF \E i \in 1..26 : UpperLetters[i] = c
    THEN LowerLetters[CHOOSE i \in 1..26 : UpperLetters[i] = c]
    ELSE c

\* strings.ToLower
ToLower(s) == [i \in 1..Len(s) |-> ToLowerChar(s[i])]

\* does sub occur in s at index i (counted from 1)
HasAt(s, i, sub) ==
    /\ i >= 1
    /\ i + Len(sub) - 1 <= Len(s)
    /\ SubSeq(s, i, i + Len(sub) - 1) = sub

\* strings.HasPrefix
HasPrefix(s, prefix) == HasAt(s, 1, prefix)

\* strings.TrimPrefix
TrimPrefix(s, prefix) ==
    IF HasPrefix(s, prefix) THEN SubSeq(s, Len(prefix) + 1, Len(s)) ELSE s

\* strings.Contains
Contains(s, sub) == \E i \in 1..(Len(s) + 1) : HasAt(s, i, sub)

\* strings.ContainsAny
ContainsAny(s, chars) == \E i \in 1..Len(s) : s[i] \in chars

SetMin(S) == CHOOSE x \in S : \A y \in S : x <= y
SetMax(S) == CHOOSE x \in S : \A y \in S : x >= y

\* strings.TrimSpace
TrimSpace(s) ==
    LET kept == {i \in 1..Len(s) : ~IsSpace(s[i])}
    IN  IF kept = {} THEN <<>> ELSE SubSeq(s, SetMin(kept), SetMax(kept))

\* the index of the first "\n" of s at or after i, Len(s) + 1 if none
LineEnd(s, i) ==
    LET ends == {j \in i..Len(s) : s[j] = "\n"}
    IN  IF ends = {} THEN Len(s) + 1 ELSE SetMin(ends)

\* strings.Split(s, "\n")
RECURSIVE SplitLines(_)
SplitLines(s) ==
    LET e == LineEnd(s, 1)
    IN  IF e > Len(s) THEN <<s>>
        ELSE <<SubSeq(s, 1, e - 1)>> \o SplitLines(SubSeq(s, e + 1, Len(s)))

\* len(strings.Fields(s)): the number of maximal runs of non-space characters
CountFields(s) ==
    Cardinality({i \in 1..Len(s) :
                    ~IsSpace(s[i]) /\ (i = 1 \/ IsSpace(s[i - 1]))})

\* the concatenation of a sequence of strings
RECURSIVE Concat(_)
Concat(ss) == IF ss = <<>> THEN <<>> ELSE Head(ss) \o Concat(Tail(ss))

----------------------------------------------------------------------------
(* pkg/gemini/models.go *)

ModelConfig == [Name |-> "gemini-1.5-pro", RPM |-> RPM, TPM |-> TPM, RPD |-> RPD]

NoError == [Type |-> "nil"]

UsageRecord(t, requestType, tokenCount, success) ==
    [Timestamp |-> t, RequestType |-> requestType,
     TokenCount |-> tokenCount, Success |-> success]

NewRateLimiter(config, t) ==
    [requestCount |-> 0, tokenCount |-> 0, lastReset |-> t,
     dailyCount |-> 0, dailyReset |-> t, config |-> config,
     usageHistory |-> <<>>]

\* recordUsage dropping the new record instead of the oldest at the cap
recordUsage_DropsNewest(r, t, requestType, tokenCount, success) ==
    LET appended == Append(r.usageHistory,
                           UsageRecord(t, requestType, tokenCount, success))
    IN  [r EXCEPT !.usageHistory =
            IF Len(appended) > HistoryCap
            THEN SubSeq(appended, 1, HistoryCap) ELSE appended]

recordUsage(r, t, requestType, tokenCount, success) ==
    LET appended == Append(r.usageHistory,
                           UsageRecord(t, requestType, tokenCount, success))
    IN  [r EXCEPT !.usageHistory =
            IF Len(appended) > HistoryCap THEN Tail(appended) ELSE appended]

\* resetMinuteCounts zeroing the daily counter as well
resetMinuteCounts_AlsoDaily(r, t) ==
    IF t - r.lastReset >= Minute
    THEN recordUsage([r EXCEPT !.requestCount = 0, !.tokenCount = 0,
                               !.dailyCount = 0,
                               !.lastReset = Truncate(t, Minute)],
                     t, "minute_reset", 0, TRUE)
    ELSE r

\* resetMinuteCounts that starts the new window with the old request count
resetMinuteCounts_KeepsRequests(r, t) ==
    IF t - r.lastReset >= Minute
    THEN recordUsage([r EXCEPT !.tokenCount = 0,
                               !.lastReset = Truncate(t, Minute)],
                     t, "minute_reset", 0, TRUE)
    ELSE r

resetMinuteCounts(r, t) ==
    IF t - r.lastReset >= Minute
    THEN recordUsage([r EXCEPT !.requestCount = 0, !.tokenCount = 0,
                               !.lastReset = Truncate(t, Minute)],
                     t, "minute_reset", 0, TRUE)
    ELSE r

resetDailyCounts(r, t) ==
    recordUsage([r EXCEPT !.dailyCount = 0, !.dailyReset = t],
                t, "daily_reset", 0, TRUE)

\* the message of the error: which limit, the two numbers, and the wait as
\* printed by %.0f
ErrRateLimit(limit, count, ceiling, tryAgainIn, unit) ==
    [Type |-> "rate_limit_error", Limit |-> limit, Count |-> count,
     Ceiling |-> ceiling, TryAgainIn |-> tryAgainIn, Unit |-> unit]

\* checkLimitExceeded with the request ceiling compared by > instead of >=
checkLimitExceeded_OffByOne(r, t) ==
    IF r.requestCount > r.config.RPM
    THEN ErrRateLimit("RPM", r.requestCount, r.config.RPM,
                      FormatF0(r.lastReset + Minute - t, Second), "seconds")
    ELSE IF r.tokenCount >= r.config.TPM
    THEN ErrRateLimit("TPM", r.tokenCount, r.config.TPM,
                      FormatF0(r.lastReset + Minute - t, Second), "seconds")
    ELSE IF r.dailyCount >= r.config.RPD
    THEN ErrRateLimit("RPD", r.dailyCount, r.config.RPD,
                      FormatF0(r.dailyReset + Day - t, Hour), "hours")
    ELSE NoError

\* checkLimitExceeded without the token ceiling
checkLimitExceeded_NoTokenCheck(r, t) ==
    IF r.requestCount >= r.config.RPM
    THEN ErrRateLimit("RPM", r.requestCount, r.config.RPM,
                      FormatF0(r.lastReset + Minute - t, Second), "seconds")
    ELSE IF r.dailyCount >= r.config.RPD
    THEN ErrRateLimit("RPD", r.dailyCount, r.config.RPD,
                      FormatF0(r.dailyReset + Day - t, Hour), "hours")
    ELSE NoError

\* checkLimitExceeded without the daily ceiling
checkLimitExceeded_NoDailyCheck(r, t) ==
    IF r.requestCount >= r.config.RPM
    THEN ErrRateLimit("RPM", r.requestCount, r.config.RPM,
                      FormatF0(r.lastReset + Minute - t, Second), "seconds")
    ELSE IF r.tokenCount >= r.config.TPM
    THEN ErrRateLimit("TPM", r.tokenCount, r.config.TPM,
                      FormatF0(r.lastReset + Minute - t, Second), "seconds")
    ELSE NoError

\* checkLimitExceeded with the daily ceiling checked first
checkLimitExceeded_DailyFirst(r, t) ==
    IF r.dailyCount >= r.config.RPD
    THEN ErrRateLimit("RPD", r.dailyCount, r.config.RPD,
                      FormatF0(r.dailyReset + Day - t, Hour), "hours")
    ELSE IF r.requestCount >= r.config.RPM
    THEN ErrRateLimit("RPM", r.requestCount, r.config.RPM,
                      FormatF0(r.lastReset + Minute - t, Second), "seconds")
    ELSE IF r.tokenCount >= r.config.TPM
    THEN ErrRateLimit("TPM", r.tokenCount, r.config.TPM,
                      FormatF0(r.lastReset + Minute - t, Second), "seconds")
    ELSE NoError

checkLimitExceeded(r, t) ==
    IF r.requestCount >= r.config.RPM
    THEN ErrRateLimit("RPM", r.requestCount, r.config.RPM,
                      FormatF0(r.lastReset + Minute - t, Second), "seconds")
    ELSE IF r.tokenCount >= r.config.TPM
    THEN ErrRateLimit("TPM", r.tokenCount, r.config.TPM,
                      FormatF0(r.lastReset + Minute - t, Second), "seconds")
    ELSE IF r.dailyCount >= r.config.RPD
    THEN ErrRateLimit("RPD", r.dailyCount, r.config.RPD,
                      FormatF0(r.dailyReset + Day - t, Hour), "hours")
    ELSE NoError

\* CheckLimit, lines 66-75: the lazy roll of the two windows
RollWindows(r, t) ==
    LET m == IF t - r.lastReset >= Minute THEN resetMinuteCounts(r, t) ELSE r
    IN  IF t - m.dailyReset >= Day THEN resetDailyCounts(m, t) ELSE m

\* CheckLimit, lines 82-84
IncrementCounters(r) ==
    [r EXCEPT !.requestCount = @ + 1, !.dailyCount = @ + 1]

\* CheckLimit counting the refused calls as well
CheckLimit_CountsRefusals(r, t) ==
    LET rolled == RollWindows(r, t)
        err == checkLimitExceeded(rolled, t)
    IN  [limiter |-> IncrementCounters(rolled),
         err |-> err,
         checked |-> rolled]

\* the limiter after the call, what the call returns, and the limiter as
\* the ceilings were checked
CheckLimit(r, t) ==
    LET rolled == RollWindows(r, t)
        err == checkLimitExceeded(rolled, t)
    IN  [limiter |-> IF err = NoError THEN IncrementCounters(rolled) ELSE rolled,
         err |-> err,
         checked |-> rolled]

\* TrackTokens as a gate: tokens that would reach the ceiling are refused
\* and not counted
TrackTokens_Gate(r, count, t) ==
    IF r.tokenCount + count >= r.config.TPM
    THEN [limiter |-> r,
          err |-> [Type |-> "rate_limit_error", Limit |-> "TPM",
                   Count |-> r.tokenCount + count, Ceiling |-> r.config.TPM]]
    ELSE [limiter |-> recordUsage([r EXCEPT !.tokenCount = @ + count],
                                  t, "token_update", count, TRUE),
          err |-> NoError]

TrackTokens(r, count, t) ==
    LET added == recordUsage([r EXCEPT !.tokenCount = @ + count],
                             t, "token_update", count, TRUE)
    IN  [limiter |-> added,
         err |-> IF added.tokenCount >= added.config.TPM
                 THEN [Type |-> "rate_limit_error", Limit |-> "TPM",
                       Count |-> added.tokenCount, Ceiling |-> added.config.TPM]
                 ELSE NoError]

Reset(r, t) ==
    recordUsage(resetDailyCounts(resetMinuteCounts(r, t), t),
                t, "manual_reset", 0, TRUE)

----------------------------------------------------------------------------
(* One limiter used by one caller at a time *)

NoCall == [op |-> "none", err |-> NoError]

Callers == 1..NumCallers
Unlocked == 0
NotCalled == [Type |-> "none"]

\* no refusal yet, and a caller that has not called WaitForAvailability
NoRefusal == [Limit |-> "none"]
\* sync.RWMutex: the read locks held, and the goroutine that holds the
\* write lock
NewRWMutex == [readers |-> 0, writer |-> 0]

NoWait == [timeout |-> 0, deadline |-> 0, polled |-> FALSE,
           requests |-> 0, daily |-> 0, refusal |-> NoRefusal]

\* the parts of the state that belong to the other specifications
CallersIdle ==
    /\ mu = Unlocked
    /\ pc = [p \in Callers |-> "idle"]
    /\ ret = [p \in Callers |-> NotCalled]
    /\ waits = [p \in Callers |-> NoWait]
    /\ rw = NewRWMutex
    /\ providers = <<>>

\* no provider has been created
NoProvider ==
    /\ rateLimiters = <<>>
    /\ chats = <<>>
    /\ acted = 0
    /\ opened = <<>>

\* nothing has been handed to the extractor
NoExtraction ==
    /\ modelOutput = <<>>
    /\ extracted = <<>>

\* no chat session is open
NoSession ==
    /\ ctx = <<>>
    /\ history = <<>>
    /\ inflight = <<>>
    /\ sent = <<>>
    /\ returned = <<>>
    /\ turns = 0
    /\ inputErrors = 0

\* no executor has been created
NoExecutor ==
    /\ goos = "linux"
    /\ command = <<>>
    /\ verdict = <<>>
    /\ executor = <<>>
    /\ started = <<>>
    /\ lastExec = <<>>

Init ==
    /\ now \in StartTimes
    /\ steps = 0
    /\ limiter = NewRateLimiter(ModelConfig, now)
    /\ lastCall = NoCall
    /\ windowAdmits = 0
    /\ admissions = <<>>
    /\ dayAdmits = 0
    /\ CallersIdle
    /\ NoProvider
    /\ NoExtraction
    /\ NoSession
    /\ NoExecutor

\* the number of admissions of the current minute window after a call that
\* took the limiter from r to s
AdmitsAfter(r, s, admitted) ==
    (IF s.lastReset # r.lastReset THEN 0 ELSE windowAdmits)
        + (IF admitted THEN 1 ELSE 0)

\* the admissions made less than a minute before the instant t
Recent(t) == SelectSeq(admissions, LAMBDA a : t - a < Minute)

\* the instants of the admissions of the last minute after a call
AdmissionsAfter(admitted) ==
    IF admitted THEN Append(Recent(now), now) ELSE admissions

\* the number of admissions of the current day window after a call on the
\* limiter r: CheckLimit rolls the day window 24 hours after dailyReset
DayAdmitsAfter(r, admitted) ==
    (IF now - r.dailyReset >= Day THEN 0 ELSE dayAdmits)
        + (IF admitted THEN 1 ELSE 0)

Advance ==
    /\ steps < MaxSteps
    /\ \E d \in Steps : now' = now + d
    /\ steps' = steps + 1
    /\ UNCHANGED <<limiter, lastCall, windowAdmits, admissions, dayAdmits>>
    /\ UNCHANGED callerVars
    /\ UNCHANGED otherVars

DoCheckLimit ==
    LET c == CheckLimit(limiter, now)
    IN  /\ limiter' = c.limiter
        /\ lastCall' = [op |-> "CheckLimit", err |-> c.err,
                        at |-> now, checked |-> c.checked,
                        admitsBefore |-> AdmitsAfter(limiter, c.checked, FALSE)]
        /\ windowAdmits' = AdmitsAfter(limiter, c.limiter, c.err = NoError)
        /\ admissions' = AdmissionsAfter(c.err = NoError)
        /\ dayAdmits' = DayAdmitsAfter(limiter, c.err = NoError)
        /\ UNCHANGED <<now, steps>>
        /\ UNCHANGED callerVars
        /\ UNCHANGED otherVars

DoTrackTokens ==
    \E count \in TokenAmounts :
        LET c == TrackTokens(limiter, count, now)
        IN  /\ steps < MaxSteps
            /\ limiter' = c.limiter
            /\ lastCall' = [op |-> "TrackTokens", err |-> c.err, count |-> count]
            /\ steps' = steps + 1
            /\ UNCHANGED <<now, windowAdmits, admissions, dayAdmits>>
            /\ UNCHANGED callerVars
            /\ UNCHANGED otherVars

DoReset ==
    /\ steps < MaxSteps
    /\ limiter' = Reset(limiter, now)
    /\ lastCall' = [op |-> "Reset", err |-> NoError]
    /\ windowAdmits' = AdmitsAfter(limiter, limiter', FALSE)
    /\ UNCHANGED admissions
    /\ dayAdmits' = 0
    /\ steps' = steps + 1
    /\ UNCHANGED now
    /\ UNCHANGED callerVars
    /\ UNCHANGED otherVars

Next == Advance \/ DoCheckLimit \/ DoTrackTokens \/ DoReset

Spec == Init /\ [][Next]_vars

----------------------------------------------------------------------------
(* One limiter shared by concurrent callers of CheckLimit (the limiter   *)
(* of a model is handed to every chat session of that model).  Each      *)
(* statement of CheckLimit is one step of the caller.                    *)

\* sync.Mutex.Lock returns only when nobody holds the mutex
MutexFree_NoMutex(holder) == TRUE

MutexFree(holder) == holder = Unlocked

InitCallers ==
    /\ now \in StartTimes
    /\ steps = 0
    /\ limiter = NewRateLimiter(ModelConfig, now)
    /\ lastCall = NoCall
    /\ windowAdmits = 0
    /\ admissions = <<>>
    /\ dayAdmits = 0
    /\ CallersIdle
    /\ NoProvider
    /\ NoExtraction
    /\ NoSession
    /\ NoExecutor

Tick ==
    /\ steps < MaxTicks
    /\ \E d \in Steps : now' = now + d
    /\ steps' = steps + 1
    /\ UNCHANGED <<limiterVars, callerVars>>
    /\ UNCHANGED otherVars

\* a caller invokes CheckLimit
CallCheckLimit(p) ==
    /\ pc[p] = "idle"
    /\ pc' = [pc EXCEPT ![p] = "lock"]
    /\ UNCHANGED <<clockVars, limiterVars, mu, ret, waits, lockVars>>
    /\ UNCHANGED otherVars

\* line 63: r.mu.Lock()
LockMu(p) ==
    /\ pc[p] = "lock"
    /\ MutexFree(mu)
    /\ mu' = p
    /\ pc' = [pc EXCEPT ![p] = "check"]
    /\ UNCHANGED <<clockVars, limiterVars, ret, waits, lockVars>>
    /\ UNCHANGED otherVars

\* lines 66-80: read the clock, roll the windows, check the ceilings
CheckCeilings(p) ==
    /\ pc[p] = "check"
    /\ LET rolled == RollWindows(limiter, now)
           err == checkLimitExceeded(rolled, now)
       IN  /\ limiter' = rolled
           /\ windowAdmits' = AdmitsAfter(limiter, rolled, FALSE)
           /\ UNCHANGED admissions
           /\ dayAdmits' = DayAdmitsAfter(limiter, FALSE)
           /\ ret' = [ret EXCEPT ![p] = err]
           /\ pc' = [pc EXCEPT ![p] =
                        IF err = NoError THEN "incRequest" ELSE "unlock"]
    /\ UNCHANGED <<clockVars, lastCall, mu, waits, lockVars>>
    /\ UNCHANGED otherVars

\* line 83: r.requestCount++
IncRequestCount(p) ==
    /\ pc[p] = "incRequest"
    /\ limiter' = [limiter EXCEPT !.requestCount = @ + 1]
    /\ windowAdmits' = windowAdmits + 1
    /\ admissions' = AdmissionsAfter(TRUE)
    /\ UNCHANGED dayAdmits
    /\ pc' = [pc EXCEPT ![p] = "incDaily"]
    /\ UNCHANGED <<clockVars, lastCall, mu, ret, waits, lockVars>>
    /\ UNCHANGED otherVars

\* line 84: r.dailyCount++
IncDailyCount(p) ==
    /\ pc[p] = "incDaily"
    /\ limiter' = [limiter EXCEPT !.dailyCount = @ + 1]
    /\ pc' = [pc EXCEPT ![p] = "unlock"]
    /\ dayAdmits' = dayAdmits + 1
    /\ UNCHANGED <<clockVars, lastCall, windowAdmits, admissions, mu, ret, waits, lockVars>>
    /\ UNCHANGED otherVars

\* line 64: the deferred r.mu.Unlock(), and the return
UnlockMu(p) ==
    /\ pc[p] = "unlock"
    /\ mu' = Unlocked
    /\ pc' = [pc EXCEPT ![p] = "idle"]
    /\ UNCHANGED <<clockVars, limiterVars, ret, waits, lockVars>>
    /\ UNCHANGED otherVars

NextCallers ==
    \/ Tick
    \/ \E p \in Callers : CallCheckLimit(p)
    \/ \E p \in Callers : LockMu(p)
    \/ \E p \in Callers : CheckCeilings(p)
    \/ \E p \in Callers : IncRequestCount(p)
    \/ \E p \in Callers : IncDailyCount(p)
    \/ \E p \in Callers : UnlockMu(p)

SpecCallers == InitCallers /\ [][NextCallers]_vars

\* C3: with concurrent callers of CheckLimit on one limiter, the number of
\* admissions of a minute window never exceeds RPM and requestCount is the
\* number of admitted calls of that window.
C3_AdmissionsLinearizable ==
    /\ windowAdmits <= RPM
    /\ limiter.requestCount = windowAdmits
    /\ \A p, q \in Callers :
            (p # q /\ pc[p] \in {"incRequest", "incDaily"})
                => pc[q] \notin {"check", "incRequest", "incDaily"}

\* the window is full, one caller was refused for RPM while another waits
\* for the mutex held by the refused one
C3_Witness ==
    /\ windowAdmits = RPM
    /\ \E p, q \in Callers :
            /\ p # q
            /\ pc[p] = "unlock" /\ ret[p].Type = "rate_limit_error"
            /\ pc[q] = "lock"
            /\ ret[q] = NoError

----------------------------------------------------------------------------
(* One limiter shared by callers of WaitForAvailability, which polls     *)
(* CheckLimit until it is admitted or its deadline has passed.  The tick *)
(* of the clock is longer than the 100 ms the loop sleeps, so a caller   *)
(* that wakes up may read the instant it read before.                    *)

MaxWaitSteps == 1

WaitRPM == 1
WaitRPD == 2

\* the limiter's configuration, the timeouts asked for and the amounts by
\* which the clock advances
WaitModelConfig ==
    [Name |-> "gemini-1.5-pro", RPM |-> WaitRPM, TPM |-> TPM, RPD |-> WaitRPD]
Timeouts == {0 - Second, 0, 150 * Second}
WaitSteps == {Minute, Day}

\* the caller of WaitForAvailability
Waiters == {1}

ErrTimeout(timeout) == [Type |-> "timeout_error", After |-> timeout]

\* some caller is inside the loop, and its deadline is still ahead
Waiting == \E p \in Waiters : pc[p] \in {"loop", "sleep"}
WaitPending == \E p \in Waiters : pc[p] \in {"loop", "sleep"} /\ now < waits[p].deadline

\* the limiter r after n CheckLimit calls made a minute apart from t on
RECURSIVE Spent(_, _, _)
Spent(r, t, n) ==
    IF n = 0 THEN r ELSE Spent(CheckLimit(r, t).limiter, t + Minute, n - 1)

\* the limiter is new, or it was created at the instant 0 and earlier
\* callers have used the requests of its day, the last of them just now
InitWait ==
    /\ steps = 0
    /\ lastCall = NoCall
    /\ \/ /\ now \in StartTimes
          /\ limiter = NewRateLimiter(WaitModelConfig, now)
          /\ windowAdmits = 0
          /\ admissions = <<>>
          /\ dayAdmits = 0
       \/ /\ now = (WaitRPD - 1) * Minute
          /\ limiter = Spent(NewRateLimiter(WaitModelConfig, 0), 0, WaitRPD)
          /\ windowAdmits = 1
          /\ admissions = <<now>>
          /\ dayAdmits = WaitRPD
    /\ CallersIdle
    /\ NoProvider
    /\ NoExtraction
    /\ NoSession
    /\ NoExecutor

\* time passes: a bounded number of times, and for as long as a caller is
\* waiting for its deadline
Pass ==
    /\ steps < MaxWaitSteps \/ WaitPending
    /\ \E d \in WaitSteps : now' = now + d
    /\ steps' = IF steps < MaxWaitSteps THEN steps + 1 ELSE steps
    /\ UNCHANGED <<limiterVars, callerVars>>
    /\ UNCHANGED otherVars

\* a CheckLimit made by another user of the limiter, a chat session's Send,
\* while a caller waits
OtherCheckLimit ==
    LET c == CheckLimit(limiter, now)
    IN  /\ Waiting
        /\ limiter' = c.limiter
        /\ windowAdmits' = AdmitsAfter(limiter, c.limiter, c.err = NoError)
        /\ admissions' = AdmissionsAfter(c.err = NoError)
        /\ dayAdmits' = DayAdmitsAfter(limiter, c.err = NoError)
        /\ UNCHANGED <<clockVars, lastCall, callerVars>>
        /\ UNCHANGED otherVars

\* TrackTokens called by another user of the limiter, for a reply whose
\* tokens reach the token ceiling of the window
OtherTrackTokens ==
    /\ Waiting
    /\ limiter.tokenCount < TPM
    /\ limiter' = TrackTokens(limiter, TPM, now).limiter
    /\ UNCHANGED <<clockVars, lastCall, windowAdmits, admissions, dayAdmits>>
    /\ UNCHANGED callerVars
    /\ UNCHANGED otherVars

\* line 207: deadline := time.Now().Add(timeout)
WaitForAvailabilityCall(p, timeout) ==
    /\ pc[p] = "idle"
    /\ waits' = [waits EXCEPT ![p] =
                    [timeout |-> timeout,
                     deadline |-> now + timeout, polled |-> FALSE,
                     requests |-> 0, daily |-> 0, refusal |-> NoRefusal]]
    /\ pc' = [pc EXCEPT ![p] = "loop"]
    /\ ret' = [ret EXCEPT ![p] = NotCalled]
    /\ UNCHANGED <<clockVars, limiterVars, mu, lockVars>>
    /\ UNCHANGED otherVars

\* the loop going on after an admitted CheckLimit instead of returning nil
Poll_NoReturn(p) ==
    /\ pc[p] = "loop"
    /\ now < waits[p].deadline
    /\ LET c == CheckLimit(limiter, now)
       IN  /\ limiter' = c.limiter
           /\ windowAdmits' = AdmitsAfter(limiter, c.limiter, c.err = NoError)
           /\ admissions' = AdmissionsAfter(c.err = NoError)
           /\ dayAdmits' = DayAdmitsAfter(limiter, c.err = NoError)
           /\ waits' = [waits EXCEPT ![p] =
                [@ EXCEPT !.polled = TRUE,
                          !.requests = @ + c.limiter.requestCount
                                         - c.checked.requestCount,
                          !.daily = @ + c.limiter.dailyCount
                                      - c.checked.dailyCount,
                          !.refusal = IF c.err = NoError THEN @
                                      ELSE [Limit |-> c.err.Limit,
                                            lastReset |-> c.checked.lastReset,
                                            dailyReset |-> c.checked.dailyReset]]]
           /\ pc' = [pc EXCEPT ![p] = "sleep"]
           /\ UNCHANGED ret
    /\ UNCHANGED <<clockVars, lastCall, mu, lockVars>>
    /\ UNCHANGED otherVars

\* lines 209-212: the loop test and, before the deadline, one CheckLimit
Poll(p) ==
    /\ pc[p] = "loop"
    /\ now < waits[p].deadline
    /\ LET c == CheckLimit(limiter, now)
       IN  /\ limiter' = c.limiter
           /\ windowAdmits' = AdmitsAfter(limiter, c.limiter, c.err = NoError)
           /\ admissions' = AdmissionsAfter(c.err = NoError)
           /\ dayAdmits' = DayAdmitsAfter(limiter, c.err = NoError)
           /\ waits' = [waits EXCEPT ![p] =
                [@ EXCEPT !.polled = TRUE,
                          !.requests = @ + c.limiter.requestCount
                                         - c.checked.requestCount,
                          !.daily = @ + c.limiter.dailyCount
                                      - c.checked.dailyCount,
                          !.refusal = IF c.err = NoError THEN @
                                      ELSE [Limit |-> c.err.Limit,
                                            lastReset |-> c.checked.lastReset,
                                            dailyReset |-> c.checked.dailyReset]]]
           /\ pc' = [pc EXCEPT ![p] = IF c.err = NoError THEN "returned" ELSE "sleep"]
           /\ ret' = [ret EXCEPT ![p] = IF c.err = NoError THEN NoError ELSE @]
    /\ UNCHANGED <<clockVars, lastCall, mu, lockVars>>
    /\ UNCHANGED otherVars

\* line 213: time.Sleep(100 * time.Millisecond)
Sleep(p) ==
    /\ pc[p] = "sleep"
    /\ pc' = [pc EXCEPT ![p] = "loop"]
    /\ UNCHANGED <<clockVars, limiterVars, mu, ret, waits, lockVars>>
    /\ UNCHANGED otherVars

\* lines 209 and 216: the deadline has passed
TimeOut(p) ==
    /\ pc[p] = "loop"
    /\ ~(now < waits[p].deadline)
    /\ pc' = [pc EXCEPT ![p] = "returned"]
    /\ ret' = [ret EXCEPT ![p] = ErrTimeout(waits[p].timeout)]
    /\ UNCHANGED <<clockVars, limiterVars, mu, waits, lockVars>>
    /\ UNCHANGED otherVars

WaitForAvailability(p) == Poll(p) \/ Sleep(p) \/ TimeOut(p)

NextWait ==
    \/ Pass
    \/ OtherCheckLimit
    \/ OtherTrackTokens
    \/ \E p \in Waiters, timeout \in Timeouts : WaitForAvailabilityCall(p, timeout)
    \/ \E p \in Waiters : Poll(p)
    \/ \E p \in Waiters : Sleep(p)
    \/ \E p \in Waiters : TimeOut(p)

\* the clock advances and every goroutine inside the loop is scheduled
SpecWait ==
    /\ InitWait
    /\ [][NextWait]_vars
    /\ WF_vars(Pass)
    /\ \A p \in Waiters : WF_vars(WaitForAvailability(p))

\* a step that is one CheckLimit made by the loop of caller p
IsPollStep(p) == pc[p] = "loop" /\ pc'[p] # "loop" /\ now < waits[p].deadline

WaitReturned(p) == pc[p] = "returned"

\* C38: WaitForAvailability terminates; it returns nil exactly when one of
\* its CheckLimit calls was admitted, having then consumed one request slot
\* and one daily slot; otherwise it returns a timeout error having
\* incremented no counter; with a timeout of zero or less it returns the
\* timeout error without calling CheckLimit.
C38_WaitForAvailability ==
    /\ \A p \in Waiters : (pc[p] \in {"loop", "sleep"}) ~> (pc[p] = "returned")
    /\ [](\A p \in Waiters :
            WaitReturned(p) =>
              /\ ret[p] \in {NoError, ErrTimeout(waits[p].timeout)}
              /\ ret[p] = NoError
                    => /\ waits[p].polled
                       /\ waits[p].requests = 1 /\ waits[p].daily = 1
              /\ ret[p] # NoError
                    => waits[p].requests = 0 /\ waits[p].daily = 0
              /\ waits[p].timeout <= 0
                    => ret[p] # NoError /\ ~waits[p].polled)
    /\ [][\A p \in Waiters :
            IsPollStep(p) =>
              LET rolled == RollWindows(limiter, now)
                  admitted == /\ limiter'.requestCount = rolled.requestCount + 1
                              /\ limiter'.dailyCount = rolled.dailyCount + 1
              IN  /\ pc'[p] = "returned" <=> admitted
                  /\ ~admitted => /\ limiter'.requestCount = rolled.requestCount
                                  /\ limiter'.dailyCount = rolled.dailyCount
                                  /\ limiter'.tokenCount = rolled.tokenCount]_vars

\* a wait that polled, was refused, and returned the timeout error once its
\* deadline had passed
C38_Witness ==
    \E p \in Waiters :
        /\ WaitReturned(p)
        /\ ret[p] = ErrTimeout(150 * Second)
        /\ waits[p].polled
        /\ waits[p].refusal # NoRefusal

\* a wait that was admitted at its first poll
C38_WitnessAdmitted ==
    \E p \in Waiters :
        /\ WaitReturned(p) /\ ret[p] = NoError
        /\ waits[p].refusal = NoRefusal

----------------------------------------------------------------------------
(* Properties of the rate limiter, checked under Spec *)

\* the last call was a CheckLimit made while the token and the daily
\* ceilings were not reached
CheckedBelowTokenAndDay ==
    /\ lastCall.op = "CheckLimit"
    /\ lastCall.checked.tokenCount < TPM
    /\ lastCall.checked.dailyCount < RPD

\* the time left, at the last CheckLimit, to the end of its minute window
MinuteLeft == lastCall.checked.lastReset + Minute - lastCall.at

RefusedForRPM ==
    /\ lastCall.err.Type = "rate_limit_error"
    /\ lastCall.err.Limit = "RPM"
    /\ lastCall.err.Unit = "seconds"

\* C1 as stated: with the token and daily ceilings not reached, the first
\* RPM CheckLimit calls of a minute window are admitted and the next one is
\* refused for RPM with a reported wait greater than 0 and at most 60 s.
C1_AsStated ==
    CheckedBelowTokenAndDay =>
        /\ lastCall.admitsBefore < RPM => lastCall.err = NoError
        /\ lastCall.admitsBefore = RPM =>
                /\ RefusedForRPM
                /\ lastCall.err.TryAgainIn > 0
                /\ lastCall.err.TryAgainIn <= 60

\* C1 amended: with the token and daily ceilings not reached, the first RPM
\* CheckLimit calls of a minute window are admitted and the next one is
\* refused for RPM; the time left to lastReset + 60 s is then greater than
\* 0 and at most 60 s, and the reported wait is that time rounded to the
\* nearest whole second, between 0 and 60 inclusive.
C1_RpmAdmissions ==
    CheckedBelowTokenAndDay =>
        /\ lastCall.admitsBefore < RPM => lastCall.err = NoError
        /\ lastCall.admitsBefore = RPM =>
                /\ RefusedForRPM
                /\ MinuteLeft > 0
                /\ MinuteLeft <= Minute
                /\ 2 * Second * lastCall.err.TryAgainIn - 2 * MinuteLeft <= Second
                /\ 2 * MinuteLeft - 2 * Second * lastCall.err.TryAgainIn <= Second
                /\ lastCall.err.TryAgainIn >= 0
                /\ lastCall.err.TryAgainIn <= 60

\* the call after RPM admissions of one window, refused when less than a
\* second of the window was left
C1_Witness ==
    /\ CheckedBelowTokenAndDay
    /\ lastCall.admitsBefore = RPM
    /\ RefusedForRPM
    /\ MinuteLeft < Second

\* C2: right after a successful CheckLimit the three counters are within
\* their ceilings, and requestCount and dailyCount are never negative.
C2_WithinCeilings ==
    /\ (lastCall.op = "CheckLimit" /\ lastCall.err = NoError) =>
            /\ limiter.requestCount <= RPM
            /\ limiter.tokenCount <= TPM
            /\ limiter.dailyCount <= RPD
    /\ limiter.requestCount >= 0
    /\ limiter.dailyCount >= 0

\* an admission that fills the minute window, after tokens were tracked
\* and Reset was called
C2_Witness ==
    /\ lastCall.op = "CheckLimit"
    /\ lastCall.err = NoError
    /\ limiter.requestCount = RPM
    /\ limiter.tokenCount > 0
    /\ \E i \in 1..Len(limiter.usageHistory) :
            limiter.usageHistory[i].RequestType = "manual_reset"

\* a step that is one CheckLimit call: neither the clock nor the count of
\* the other calls moves
IsCheckLimitStep ==
    /\ now' = now
    /\ steps' = steps
    /\ lastCall'.op = "CheckLimit"

Admitted(err) == IF err = NoError THEN 1 ELSE 0

\* the minute window of r as CheckLimit leaves it at time t: checked is r
\* as the ceilings saw it, s is r after the call
MinuteRolled(r, checked, s, t, err) ==
    IF t - r.lastReset >= Minute
    THEN /\ checked.requestCount = 0
         /\ checked.tokenCount = 0
         /\ s.requestCount = Admitted(err)
         /\ s.tokenCount = 0
         /\ s.lastReset % Minute = 0
         /\ s.lastReset <= t
         /\ t < s.lastReset + Minute
    ELSE /\ checked.requestCount = r.requestCount
         /\ checked.tokenCount = r.tokenCount
         /\ s.requestCount = r.requestCount + Admitted(err)
         /\ s.tokenCount = r.tokenCount
         /\ s.lastReset = r.lastReset

\* the day window likewise
DayRolled(r, checked, s, t, err) ==
    IF t - r.dailyReset >= Day
    THEN /\ checked.dailyCount = 0
         /\ s.dailyCount = Admitted(err)
         /\ s.dailyReset = t
    ELSE /\ checked.dailyCount = r.dailyCount
         /\ s.dailyCount = r.dailyCount + Admitted(err)
         /\ s.dailyReset = r.dailyReset

\* C15: a CheckLimit made 60 s or more after lastReset checks the ceilings
\* with requestCount and tokenCount at 0 and sets lastReset to the start of
\* the current minute; the minute rollover leaves dailyCount alone, which
\* changes only by the call's own admission unless 24 h have passed since
\* dailyReset, when it restarts from 0 and dailyReset becomes the current
\* time; a window whose period has not elapsed is not rolled.
C15_WindowRollover ==
    [][IsCheckLimitStep =>
        /\ MinuteRolled(limiter, lastCall'.checked, limiter', now,
                        lastCall'.err)
        /\ DayRolled(limiter, lastCall'.checked, limiter', now,
                     lastCall'.err)]_vars

\* a CheckLimit that rolled the minute window and was admitted, with an
\* earlier admission of the same day still counted
C15_Witness ==
    /\ lastCall.op = "CheckLimit"
    /\ lastCall.err = NoError
    /\ lastCall.checked.requestCount = 0
    /\ lastCall.checked.lastReset = lastCall.at - (lastCall.at % Minute)
    /\ lastCall.checked.lastReset > 50 * Second
    /\ lastCall.checked.usageHistory[Len(lastCall.checked.usageHistory)]
            = UsageRecord(lastCall.at, "minute_reset", 0, TRUE)
    /\ limiter.requestCount = 1
    /\ limiter.dailyCount >= 2

\* the whole number w is the duration left, in units of unit, rounded to
\* the nearest
RoundedTo(w, left, unit) ==
    /\ 2 * unit * w - 2 * left <= unit
    /\ 2 * left - 2 * unit * w <= unit

\* the refusal names the ceiling limit with its counter, and its wait is
\* the time from the call to the end of the window that began at start
RefusedFor(limit, count, ceiling, start, period, unit, unitName) ==
    /\ lastCall.err.Type = "rate_limit_error"
    /\ lastCall.err.Limit = limit
    /\ lastCall.err.Count = count
    /\ lastCall.err.Ceiling = ceiling
    /\ lastCall.err.Unit = unitName
    /\ RoundedTo(lastCall.err.TryAgainIn, start + period - lastCall.at, unit)

\* C24: CheckLimit checks the ceilings in the order RPM, TPM, RPD and
\* reports the first one reached, whichever others are reached too; the
\* wait it reports is the time left to lastReset + 1 minute for RPM and TPM,
\* in whole seconds, and to dailyReset + 24 hours for RPD, in whole hours;
\* with no ceiling reached the call is admitted.
C24_FirstCeilingReported ==
    lastCall.op = "CheckLimit" =>
        LET c == lastCall.checked
        IN  IF c.requestCount >= RPM
            THEN RefusedFor("RPM", c.requestCount, RPM,
                            c.lastReset, Minute, Second, "seconds")
            ELSE IF c.tokenCount >= TPM
            THEN RefusedFor("TPM", c.tokenCount, TPM,
                            c.lastReset, Minute, Second, "seconds")
            ELSE IF c.dailyCount >= RPD
            THEN RefusedFor("RPD", c.dailyCount, RPD,
                            c.dailyReset, Day, Hour, "hours")
            ELSE lastCall.err = NoError

\* a call refused for RPM with the token and the daily ceilings reached
\* as well, at an instant that is not the start of either window
C24_Witness ==
    /\ lastCall.op = "CheckLimit"
    /\ lastCall.checked.requestCount >= RPM
    /\ lastCall.checked.tokenCount >= TPM
    /\ lastCall.checked.dailyCount >= RPD
    /\ lastCall.err.Limit = "RPM"
    /\ lastCall.at > lastCall.checked.lastReset
    /\ lastCall.checked.lastReset > lastCall.checked.dailyReset

\* a call refused for TPM with the daily ceiling reached and the request
\* ceiling not
C24_TokensBeforeDay ==
    /\ lastCall.op = "CheckLimit"
    /\ lastCall.checked.requestCount < RPM
    /\ lastCall.checked.tokenCount >= TPM
    /\ lastCall.checked.dailyCount >= RPD
    /\ lastCall.err.Limit = "TPM"

\* neither window of the limiter is due to be rolled
NoRolloverDue ==
    /\ now - limiter.lastReset < Minute
    /\ now - limiter.dailyReset < Day

\* the ledger h2 is the ledger h followed by records of window rollovers
OnlyRollovers(h, h2) ==
    /\ Len(h2) >= Len(h)
    /\ SubSeq(h2, 1, Len(h)) = h
    /\ \A i \in (Len(h) + 1)..Len(h2) :
            h2[i].RequestType \in {"minute_reset", "daily_reset"}

\* C25: a refused CheckLimit leaves the limiter as the lazy rollover at the
\* start of the call left it, and exactly as it was when no window was
\* due: the three counters are unchanged and no ledger record is appended
\* for the refusal; an admitted call adds exactly 1 to requestCount and to
\* dailyCount and leaves tokenCount unchanged.
C25_RefusalChangesNothing ==
    [][IsCheckLimitStep =>
        /\ OnlyRollovers(limiter.usageHistory, limiter'.usageHistory)
        /\ NoRolloverDue => lastCall'.checked = limiter
        /\ limiter'.tokenCount = lastCall'.checked.tokenCount
        /\ limiter'.usageHistory = lastCall'.checked.usageHistory
        /\ limiter'.lastReset = lastCall'.checked.lastReset
        /\ limiter'.dailyReset = lastCall'.checked.dailyReset
        /\ IF lastCall'.err = NoError
           THEN /\ limiter'.requestCount = lastCall'.checked.requestCount + 1
                /\ limiter'.dailyCount = lastCall'.checked.dailyCount + 1
           ELSE /\ limiter'.requestCount = lastCall'.checked.requestCount
                /\ limiter'.dailyCount = lastCall'.checked.dailyCount]_vars

\* a call that rolled the minute window and was refused for the daily
\* ceiling: the rollover is the last record of the ledger
C25_Witness ==
    /\ lastCall.op = "CheckLimit"
    /\ lastCall.err.Type = "rate_limit_error"
    /\ lastCall.err.Limit = "RPD"
    /\ limiter.requestCount = 0
    /\ limiter.dailyCount = RPD
    /\ limiter.usageHistory # <<>>
    /\ limiter.usageHistory[Len(limiter.usageHistory)]
            = UsageRecord(lastCall.at, "minute_reset", 0, TRUE)

\* a step that is one TrackTokens call
IsTrackTokensStep ==
    /\ now' = now
    /\ steps' = steps + 1
    /\ lastCall'.op = "TrackTokens"

\* C26: TrackTokens(n) always adds n to tokenCount and appends one
\* "token_update" record of n tokens, also when it reports a breach; it
\* leaves requestCount, dailyCount, lastReset and dailyReset unchanged; it
\* returns a rate_limit_error exactly when the resulting tokenCount has
\* reached TPM; and with tokenCount at TPM or above, tokenCount stays there
\* and every CheckLimit is refused for as long as the minute window is not
\* rolled.
C26_TokensPostHoc ==
    [][/\ IsTrackTokensStep =>
            /\ limiter'.tokenCount = limiter.tokenCount + lastCall'.count
            /\ limiter'.usageHistory
                    = Append(limiter.usageHistory,
                             UsageRecord(now, "token_update",
                                         lastCall'.count, TRUE))
            /\ limiter'.requestCount = limiter.requestCount
            /\ limiter'.dailyCount = limiter.dailyCount
            /\ limiter'.lastReset = limiter.lastReset
            /\ limiter'.dailyReset = limiter.dailyReset
            /\ (lastCall'.err.Type = "rate_limit_error")
                    <=> (limiter'.tokenCount >= TPM)
            /\ (lastCall'.err = NoError) <=> (limiter'.tokenCount < TPM)
       /\ (limiter.tokenCount >= TPM /\ limiter'.lastReset = limiter.lastReset) =>
            /\ limiter'.tokenCount >= TPM
            /\ IsCheckLimitStep => lastCall'.err.Type = "rate_limit_error"]_vars

\* a TrackTokens call made with the token ceiling already reached: the
\* tokens were added and recorded all the same, and the breach reported
C26_Witness ==
    /\ lastCall.op = "TrackTokens"
    /\ lastCall.err.Type = "rate_limit_error"
    /\ limiter.tokenCount - lastCall.count >= TPM
    /\ limiter.requestCount < RPM
    /\ limiter.usageHistory[Len(limiter.usageHistory)]
            = UsageRecord(now, "token_update", lastCall.count, TRUE)

\* a CheckLimit refused for the token ceiling that TrackTokens reported
C26_RefusedAfterBreach ==
    /\ lastCall.op = "CheckLimit"
    /\ lastCall.err.Type = "rate_limit_error"
    /\ lastCall.err.Limit = "TPM"

\* the last record of the ledger
LastUsage == limiter.usageHistory[Len(limiter.usageHistory)]

\* the tokens that the ledger h records as reported at the instant t or later
RECURSIVE TokensFrom(_, _)
TokensFrom(h, t) ==
    IF h = <<>> THEN 0
    ELSE (IF Head(h).RequestType = "token_update" /\ Head(h).Timestamp >= t
          THEN Head(h).TokenCount ELSE 0) + TokensFrom(Tail(h), t)

\* C36: tokens reported by TrackTokens count against the minute window in
\* which they are reported: a TrackTokens made 60 s or more after lastReset
\* reports a breach exactly when the tokens reported since that window
\* expired reach TPM, and the CheckLimit that next rolls the window keeps
\* the tokens just reported in tokenCount.
C36_TokensInOwnWindow ==
    [][/\ (IsTrackTokensStep /\ now - limiter.lastReset >= Minute)
            => ((lastCall'.err.Type = "rate_limit_error")
                    <=> (TokensFrom(limiter'.usageHistory,
                                    limiter.lastReset + Minute) >= TPM))
       /\ (/\ IsCheckLimitStep
           /\ lastCall.op = "TrackTokens"
           /\ LastUsage.RequestType = "token_update"
           /\ LastUsage.Timestamp - limiter.lastReset >= Minute)
            => limiter'.tokenCount >= lastCall.count]_vars

\* C36, what the code does: the tokens are added to the count of the
\* expired window, the breach is reported on that sum, and the CheckLimit
\* that rolls the window starts it with no tokens
C36_TokensOfExpiredWindow ==
    [][/\ (IsTrackTokensStep /\ now - limiter.lastReset >= Minute)
            => /\ limiter'.lastReset = limiter.lastReset
               /\ limiter'.tokenCount = limiter.tokenCount + lastCall'.count
               /\ (lastCall'.err.Type = "rate_limit_error")
                    <=> (limiter.tokenCount + lastCall'.count >= TPM)
       /\ (IsCheckLimitStep /\ now - limiter.lastReset >= Minute)
            => lastCall'.checked.tokenCount = 0]_vars

\* tokens reported in an expired window, then wiped by the CheckLimit that
\* rolled the window
C36_TokensLost ==
    /\ lastCall.op = "CheckLimit"
    /\ Len(lastCall.checked.usageHistory) >= 2
    /\ LET h == lastCall.checked.usageHistory
           n == Len(h)
       IN  /\ h[n].RequestType = "minute_reset"
           /\ h[n - 1].RequestType = "token_update"
           /\ h[n - 1].TokenCount > 0
           /\ h[n].Timestamp = now
           /\ h[n - 1].Timestamp = now
    /\ limiter.tokenCount = 0

\* a step that is one Reset call
IsResetStep ==
    /\ now' = now
    /\ steps' = steps + 1
    /\ lastCall'.op = "Reset"

\* the step rolls the day window
DayWindowRolled ==
    \/ limiter'.dailyReset # limiter.dailyReset
    \/ limiter'.dailyCount < limiter.dailyCount

\* C27: the admissions since the day window was last rolled are counted by
\* dailyCount and number at most RPD, however many minute windows have
\* been rolled meanwhile; the day window is rolled only by a CheckLimit
\* made 24 hours or more after dailyReset, which restarts dailyCount from 0
\* and sets dailyReset to the current time, or by Reset.
C27_DailyCeiling ==
    /\ [](dayAdmits <= RPD /\ limiter.dailyCount = dayAdmits)
    /\ [][DayWindowRolled =>
            \/ IsResetStep
            \/ /\ IsCheckLimitStep
               /\ now - limiter.dailyReset >= Day
               /\ lastCall'.checked.dailyCount = 0
               /\ limiter'.dailyReset = now]_vars

\* the daily ceiling refuses a call in a day window that began with a
\* rollover and in which the minute window was rolled after admissions
C27_Witness ==
    /\ dayAdmits = RPD
    /\ lastCall.op = "CheckLimit"
    /\ lastCall.err.Type = "rate_limit_error"
    /\ lastCall.err.Limit = "RPD"
    /\ limiter.requestCount < dayAdmits
    /\ limiter.requestCount > 0
    /\ \E i \in 1..Len(limiter.usageHistory) :
            limiter.usageHistory[i].RequestType = "daily_reset"

\* C23: the request ceiling holds over every rolling minute: the admissions
\* made less than 60 seconds before any instant, that instant included,
\* number at most RPM.
C23_RollingMinuteCeiling == Len(Recent(now)) <= RPM

\* C20: right after Reset the three counters are 0, whatever they were and
\* however little time has passed since lastReset, and a CheckLimit made
\* then is admitted.
C20_ResetClearsCounters ==
    lastCall.op = "Reset" =>
        /\ limiter.requestCount = 0
        /\ limiter.tokenCount = 0
        /\ limiter.dailyCount = 0
        /\ CheckLimit(limiter, now).err = NoError

----------------------------------------------------------------------------
(* The limiter with its ledger nearly full: LedgerStart TrackTokens calls *)
(* have been made at time 0, the i-th with LedgerBase + i tokens, and     *)
(* LedgerSteps steps of the clock, TrackTokens and Reset are left         *)

LedgerSteps == 2
LedgerStart == HistoryCap - 2
LedgerBase == 10

\* 1 + 2 + ... + n
SumTo(n) == (n * (n + 1)) \div 2

InitLedger ==
    /\ now = 0
    /\ steps = MaxSteps - LedgerSteps
    /\ limiter =
            [NewRateLimiter(ModelConfig, now) EXCEPT
                !.tokenCount = LedgerBase * LedgerStart + SumTo(LedgerStart),
                !.usageHistory =
                    [i \in 1..LedgerStart |->
                        UsageRecord(now, "token_update", LedgerBase + i, TRUE)]]
    /\ lastCall = NoCall
    /\ windowAdmits = 0
    /\ admissions = <<>>
    /\ dayAdmits = 0
    /\ CallersIdle
    /\ NoProvider
    /\ NoExtraction
    /\ NoSession
    /\ NoExecutor

SpecLedger == InitLedger /\ [][Next]_vars

\* the last n elements of the sequence h, all of it when it has fewer
LastN(h, n) ==
    IF Len(h) <= n THEN h ELSE SubSeq(h, Len(h) - n + 1, Len(h))

OneIf(b) == IF b THEN 1 ELSE 0

\* the number of events the step records: one per window rolled by
\* CheckLimit, one per TrackTokens, two or three per Reset, none when only
\* the clock moves
EventsRecorded ==
    IF now' # now THEN 0
    ELSE IF steps' = steps
    THEN OneIf(now - limiter.lastReset >= Minute)
            + OneIf(now - limiter.dailyReset >= Day)
    ELSE IF lastCall'.op = "TrackTokens" THEN 1
    ELSE 2 + OneIf(now - limiter.lastReset >= Minute)

\* the ledger h became h2 by recording k events at time t
LedgerKept(h, h2, k, t) ==
    /\ Len(h2) <= HistoryCap
    /\ k <= Len(h2)
    /\ Len(h2) = IF Len(h) + k <= HistoryCap THEN Len(h) + k ELSE HistoryCap
    /\ h2 = LastN(h \o SubSeq(h2, Len(h2) - k + 1, Len(h2)), HistoryCap)
    /\ \A i \in (Len(h2) - k + 1)..Len(h2) : h2[i].Timestamp = t

\* C16: the ledger never holds more than 1000 records; every call leaves
\* it holding the most recent 1000 (all when fewer) of the records it held
\* followed by the records of the events the call recorded, in that order,
\* so that the oldest records are evicted first and the records kept are
\* unchanged.
C16_LedgerBounded ==
    [][LedgerKept(limiter.usageHistory, limiter'.usageHistory,
                  EventsRecorded, now)]_vars

\* after 1001 events the ledger holds 1000 records, the first event is
\* gone and the second is now the oldest
C16_Witness ==
    /\ Len(limiter.usageHistory) = HistoryCap
    /\ limiter.usageHistory[1]
            = UsageRecord(0, "token_update", LedgerBase + 2, TRUE)
    /\ limiter.usageHistory[HistoryCap].RequestType = "token_update"
    /\ limiter.usageHistory[HistoryCap - 1].RequestType = "manual_reset"

----------------------------------------------------------------------------
(* pkg/gemini/chat.go: the command extractor *)

\* the result of a regexp search: whether it matched, and the submatch
NoMatch == [found |-> FALSE, text |-> <<>>]
Match(text) == [found |-> TRUE, text |-> text]

\* the grave accent, which a TLA+ string cannot hold
Backtick == "GRAVE"
Backticks3 == <<Backtick, Backtick, Backtick>>
Newline == <<"\n">>

\* the tags of codeBlockRegex, (?:bash|shell|zsh|cmd|powershell)?
FenceTags == <<
    <<"b","a","s","h">>,
    <<"s","h","e","l","l">>,
    <<"z","s","h">>,
    <<"c","m","d">>,
    <<"p","o","w","e","r","s","h","e","l","l">> >>

\* chat.go line 349: commonCmds
commonCmds == <<
    <<"l","s">>,
    <<"c","d">>,
    <<"p","w","d">>,
    <<"c","p">>,
    <<"m","v">>,
    <<"r","m">>,
    <<"m","k","d","i","r">>,
    <<"t","o","u","c","h">>,
    <<"c","a","t">>,
    <<"e","c","h","o">>,
    <<"g","r","e","p">>,
    <<"f","i","n","d">>,
    <<"s","e","d">>,
    <<"a","w","k">>,
    <<"c","u","r","l">>,
    <<"w","g","e","t">>,
    <<"g","i","t">>,
    <<"d","o","c","k","e","r">>,
    <<"m","a","k","e">>,
    <<"g","c","c">>,
    <<"g","o">>,
    <<"p","y","t","h","o","n">>,
    <<"n","o","d","e">>,
    <<"n","p","m">> >>

\* chat.go line 344 and line 363: the character sets of ContainsAny
PathBreakers == {" ", "|", "&", ";", "<", ">", "(", ")", "$", Backtick, "\\", "\"", "'"}
Operators == {"|", "&", ";", "<", ">", "(", ")"}

\* isValidCommand with the bare-path rule accepting instead of rejecting
isValidCommand_PathsPass(c) ==
    LET cmd == TrimSpace(c)
    IN  IF cmd = <<>> THEN FALSE
        ELSE IF HasPrefix(cmd, <<"/">>) /\ ~ContainsAny(cmd, PathBreakers)
        THEN TRUE
        ELSE IF \E k \in 1..Len(commonCmds) :
                    \/ HasPrefix(cmd, commonCmds[k] \o <<" ">>)
                    \/ cmd = commonCmds[k]
        THEN TRUE
        ELSE IF ContainsAny(cmd, Operators) THEN TRUE
        ELSE IF Contains(cmd, <<"$">>) \/ Contains(cmd, <<Backtick>>) THEN TRUE
        ELSE FALSE

\* isValidCommand without the rule of the common commands
isValidCommand_NoCommonCmds(c) ==
    LET cmd == TrimSpace(c)
    IN  IF cmd = <<>> THEN FALSE
        ELSE IF HasPrefix(cmd, <<"/">>) /\ ~ContainsAny(cmd, PathBreakers)
        THEN FALSE
        ELSE IF ContainsAny(cmd, Operators) THEN TRUE
        ELSE IF Contains(cmd, <<"$">>) \/ Contains(cmd, <<Backtick>>) THEN TRUE
        ELSE FALSE

isValidCommand(c) ==
    LET cmd == TrimSpace(c)
    IN  IF cmd = <<>> THEN FALSE
        ELSE IF HasPrefix(cmd, <<"/">>) /\ ~ContainsAny(cmd, PathBreakers)
        THEN FALSE
        ELSE IF \E k \in 1..Len(commonCmds) :
                    \/ HasPrefix(cmd, commonCmds[k] \o <<" ">>)
                    \/ cmd = commonCmds[k]
        THEN TRUE
        ELSE IF ContainsAny(cmd, Operators) THEN TRUE
        ELSE IF Contains(cmd, <<"$">>) \/ Contains(cmd, <<Backtick>>) THEN TRUE
        ELSE FALSE

\* codeBlockRegex, "```(?:bash|shell|zsh|cmd|powershell)?\n(.*?)\n```",
\* tried at index i: three backticks, a tag or nothing, a newline, one line
\* ("." does not match a newline), a newline and three backticks
FenceAt(s, i) ==
    LET tagged == {k \in 1..Len(FenceTags) :
                      HasAt(s, i + 3, FenceTags[k] \o Newline)}
        tagLen == IF tagged = {} THEN 0
                  ELSE Len(FenceTags[CHOOSE k \in tagged : TRUE])
        first == i + 3 + tagLen + 1
        e == LineEnd(s, first)
    IN  IF /\ HasAt(s, i, Backticks3)
           /\ HasAt(s, i + 3 + tagLen, Newline)
           /\ e <= Len(s)
           /\ HasAt(s, e + 1, Backticks3)
        THEN Match(SubSeq(s, first, e - 1))
        ELSE NoMatch

\* the first match of codeBlockRegex in s: matches[0][1]
FindCodeBlock(s) ==
    LET at == {i \in 1..Len(s) : FenceAt(s, i).found}
    IN  IF at = {} THEN NoMatch ELSE FenceAt(s, SetMin(at))

\* inlineCodeRegex, "`([^`]+)`", tried at index i
InlineAt(s, i) ==
    LET closing == {j \in (i + 2)..Len(s) : s[j] = Backtick}
    IN  IF /\ HasAt(s, i, <<Backtick>>)
           /\ i + 1 <= Len(s)
           /\ s[i + 1] # Backtick
           /\ closing # {}
        THEN Match(SubSeq(s, i + 1, SetMin(closing) - 1))
        ELSE NoMatch

\* the first match of inlineCodeRegex in s
FindInlineCode(s) ==
    LET at == {i \in 1..Len(s) : InlineAt(s, i).found}
    IN  IF at = {} THEN NoMatch ELSE InlineAt(s, SetMin(at))

\* chat.go lines 310-317: a line that begins with $, # or >, and the line
\* with one "$", then one "#", then one ">" trimmed from its front
IsMarked(line) ==
    \/ HasPrefix(line, <<"$">>)
    \/ HasPrefix(line, <<"#">>)
    \/ HasPrefix(line, <<">">>)

StripMarkers(line) ==
    TrimSpace(TrimPrefix(TrimPrefix(TrimPrefix(line, <<"$">>), <<"#">>), <<">">>))

\* chat.go lines 307-322: the first marked line whose command is valid
RECURSIVE FindMarkedLine(_)
FindMarkedLine(lines) ==
    IF lines = <<>> THEN NoMatch
    ELSE LET line == TrimSpace(Head(lines))
         IN  IF IsMarked(line) /\ isValidCommand(StripMarkers(line))
             THEN Match(StripMarkers(line))
             ELSE FindMarkedLine(Tail(lines))

Keywords == <<
    <<"r","u","n",":">>,
    <<"e","x","e","c","u","t","e",":">>,
    <<"c","o","m","m","a","n","d",":">> >>

\* commandRegex, (?i)(?:run|execute|command):\s*(.+), tried at index i: the
\* keyword in any case, then white space, then the rest of the line; when
\* only white space follows, \s* gives back characters until (.+) can take
\* one that is not a newline
KeywordAt(s, i) ==
    LET hit == {k \in 1..Len(Keywords) :
                    /\ i + Len(Keywords[k]) - 1 <= Len(s)
                    /\ ToLower(SubSeq(s, i, i + Len(Keywords[k]) - 1)) = Keywords[k]}
        from == i + Len(Keywords[CHOOSE k \in hit : TRUE])
        solid == {j \in from..Len(s) : ~IsSpace(s[j])}
        blank == {j \in from..Len(s) : s[j] # "\n"}
    IN  IF hit = {} THEN NoMatch
        ELSE IF solid # {} /\ \A j \in from..(SetMin(solid) - 1) : IsSpace(s[j])
        THEN Match(SubSeq(s, SetMin(solid), LineEnd(s, SetMin(solid)) - 1))
        ELSE IF solid = {} /\ blank # {}
        THEN Match(SubSeq(s, SetMax(blank), LineEnd(s, SetMax(blank)) - 1))
        ELSE NoMatch

\* the first match of commandRegex in s
FindKeyword(s) ==
    LET at == {i \in 1..Len(s) : KeywordAt(s, i).found}
    IN  IF at = {} THEN NoMatch ELSE KeywordAt(s, SetMin(at))

\* genai.Part: genai.Text, or anything else (genai.Blob)
Text(t) == [kind |-> "text", text |-> t]
Blob == [kind |-> "blob"]
IsText(part) == part.kind = "text"

\* chat.go lines 278-282: the concatenation of the text parts
RECURSIVE TextOf(_)
TextOf(parts) ==
    IF parts = <<>> THEN <<>>
    ELSE (IF IsText(Head(parts)) THEN Head(parts).text ELSE <<>>)
            \o TextOf(Tail(parts))

\* which strategy gave the command, 0 when none did
ExtractStrategy(fullOutput) ==
    LET block == FindCodeBlock(fullOutput)
        inline == FindInlineCode(fullOutput)
        marked == FindMarkedLine(SplitLines(fullOutput))
        keyword == FindKeyword(fullOutput)
    IN  IF block.found /\ isValidCommand(TrimSpace(block.text)) THEN 1
        ELSE IF inline.found /\ isValidCommand(TrimSpace(inline.text)) THEN 2
        ELSE IF marked.found THEN 3
        ELSE IF keyword.found /\ isValidCommand(TrimSpace(keyword.text)) THEN 4
        ELSE 0

\* the extractor with the inline span tried before the fenced block
extractCommandAndOutput_InlineFirst(parts) ==
    LET fullOutput == TextOf(parts)
        block == FindCodeBlock(fullOutput)
        inline == FindInlineCode(fullOutput)
        marked == FindMarkedLine(SplitLines(fullOutput))
        keyword == FindKeyword(fullOutput)
    IN  [fullOutput |-> fullOutput,
         command |->
            IF inline.found /\ isValidCommand(TrimSpace(inline.text))
            THEN TrimSpace(inline.text)
            ELSE IF block.found /\ isValidCommand(TrimSpace(block.text))
            THEN TrimSpace(block.text)
            ELSE IF marked.found THEN marked.text
            ELSE IF keyword.found /\ isValidCommand(TrimSpace(keyword.text))
            THEN TrimSpace(keyword.text)
            ELSE <<>>]

\* the extractor returning the keyword line's candidate unexamined
extractCommandAndOutput_Unchecked(parts) ==
    LET fullOutput == TextOf(parts)
        block == FindCodeBlock(fullOutput)
        inline == FindInlineCode(fullOutput)
        marked == FindMarkedLine(SplitLines(fullOutput))
        keyword == FindKeyword(fullOutput)
    IN  [fullOutput |-> fullOutput,
         command |->
            IF block.found /\ isValidCommand(TrimSpace(block.text))
            THEN TrimSpace(block.text)
            ELSE IF inline.found /\ isValidCommand(TrimSpace(inline.text))
            THEN TrimSpace(inline.text)
            ELSE IF marked.found THEN marked.text
            ELSE IF keyword.found THEN TrimSpace(keyword.text)
            ELSE <<>>]

extractCommandAndOutput(parts) ==
    LET fullOutput == TextOf(parts)
        block == FindCodeBlock(fullOutput)
        inline == FindInlineCode(fullOutput)
        marked == FindMarkedLine(SplitLines(fullOutput))
        keyword == FindKeyword(fullOutput)
    IN  [fullOutput |-> fullOutput,
         command |->
            IF block.found /\ isValidCommand(TrimSpace(block.text))
            THEN TrimSpace(block.text)
            ELSE IF inline.found /\ isValidCommand(TrimSpace(inline.text))
            THEN TrimSpace(inline.text)
            ELSE IF marked.found THEN marked.text
            ELSE IF keyword.found /\ isValidCommand(TrimSpace(keyword.text))
            THEN TrimSpace(keyword.text)
            ELSE <<>>]

\* estimateTokenCount: int((words * 1.3 + characters / 4.0) / 2)
estimateTokenCount(text) ==
    (26 * CountFields(text) + 5 * Len(text)) \div 40

----------------------------------------------------------------------------
(* extractCommandAndOutput applied to one reply of the backend *)

MaxParts == 2

\* the text parts a reply is made of
Pieces ==
    {<<Backtick,Backtick,Backtick,"b","a","s","h","\n","l","s"," ","-",
        "l","a","\n",Backtick,Backtick,Backtick>>,
     <<Backtick,Backtick,Backtick,"\n","/","u","s","r","/","l","o","c",
        "a","l","/","b","i","n","\n",Backtick,Backtick,Backtick>>,
     <<Backtick,"g","i","t"," ","s","t","a","t","u","s",Backtick>>,
     <<Backtick,"m","a","y","b","e",Backtick>>,
     <<"\n","$"," ","p","w","d">>,
     <<"\n","#"," ","N","o","t","e","s">>,
     <<"E","x","e","c","u","t","e",":"," ","g","i","t"," ","s","t","a",
        "t","u","s">>,
     <<"r","u","n",":"," ","/","u","s","r","/","l","o","c","a","l","/",
        "b","i","n">>,
     <<"/","u","s","r","/","l","o","c","a","l","/","b","i","n">>,
     <<"\n">>,
     <<"S","e","e"," ">>,
     <<"\n",">"," ","c","a","t"," ","a"," ","|"," ","w","c">>,
     <<Backtick,Backtick,Backtick,"b","a","s","h","\n","l","s"," ",
          "-","l","a","\n","c","d"," ","/","t","m","p","\n",Backtick,
          Backtick,Backtick>>,
     <<Backtick,"l","s","b","l","k",Backtick>>}

Parts == {Text(t) : t \in Pieces} \cup {Blob}

RECURSIVE ContentsOf(_)
ContentsOf(n) ==
    IF n = 0 THEN {<<>>}
    ELSE ContentsOf(n - 1)
            \cup {Append(c, part) : c \in ContentsOf(n - 1), part \in Parts}

Contents == ContentsOf(MaxParts)

NotExtracted == [kind |-> "none"]

InitExtract ==
    /\ now = 0
    /\ steps = 0
    /\ limiter = NewRateLimiter(ModelConfig, now)
    /\ lastCall = NoCall
    /\ windowAdmits = 0
    /\ admissions = <<>>
    /\ dayAdmits = 0
    /\ CallersIdle
    /\ NoProvider
    /\ NoSession
    /\ NoExecutor
    /\ modelOutput \in Contents
    /\ extracted = NotExtracted

Extract ==
    /\ extracted' = extractCommandAndOutput(modelOutput)
    /\ UNCHANGED modelOutput
    /\ UNCHANGED <<clockVars, limiterVars, callerVars, sessionVars, execVars>>
    /\ UNCHANGED providerVars

NextExtract == Extract

SpecExtract == InitExtract /\ [][NextExtract]_vars

\* the candidates of the third strategy: the lines that, trimmed, begin
\* with $, # or > and whose remainder is a valid command
ValidMarkedLines(lines) ==
    {i \in 1..Len(lines) :
        /\ IsMarked(TrimSpace(lines[i]))
        /\ isValidCommand(StripMarkers(TrimSpace(lines[i])))}

\* the command the strategies select, given the first fenced block, the
\* first inline span, the lines and the keyword match of the reply
InStrictOrder(block, inline, lines, marked, keyword, cmd) ==
    IF block.found /\ isValidCommand(TrimSpace(block.text))
    THEN cmd = TrimSpace(block.text)
    ELSE IF inline.found /\ isValidCommand(TrimSpace(inline.text))
    THEN cmd = TrimSpace(inline.text)
    ELSE IF marked # {}
    THEN cmd = StripMarkers(TrimSpace(lines[SetMin(marked)]))
    ELSE IF keyword.found /\ isValidCommand(TrimSpace(keyword.text))
    THEN cmd = TrimSpace(keyword.text)
    ELSE cmd = <<>>

StrategyOrder(fullOutput, cmd) ==
    InStrictOrder(FindCodeBlock(fullOutput), FindInlineCode(fullOutput),
                  SplitLines(fullOutput),
                  ValidMarkedLines(SplitLines(fullOutput)),
                  FindKeyword(fullOutput), cmd)

\* the text of a reply: its text parts joined in order
ReplyText(parts) ==
    Concat([i \in 1..Len(SelectSeq(parts, IsText)) |->
                SelectSeq(parts, IsText)[i].text])

\* C12: the command returned is the trimmed content of the first fenced
\* block when that is a valid command; otherwise the trimmed first inline
\* span when valid; otherwise the first line beginning with $, # or > whose
\* remainder is valid; otherwise the text after the first run:, execute: or
\* command: keyword when valid; otherwise empty.  "Execute: git status"
\* alone gives "git status".
C12_StrategyOrder ==
    extracted # NotExtracted =>
        /\ StrategyOrder(ReplyText(modelOutput), extracted.command)
        /\ modelOutput = <<Text(<<"E","x","e","c","u","t","e",":"," ","g","i","t"," ","s",
            "t","a","t","u","s">>)>>
                => extracted.command = <<"g","i","t"," ","s","t","a","t","u","s">>

\* a fenced "ls -la" followed by a "$ pwd" line gave "ls -la"
C12_Witness ==
    /\ modelOutput = <<Text(<<Backtick,Backtick,Backtick,"b","a","s","h","\n","l","s",
            " ","-","l","a","\n",Backtick,Backtick,Backtick>>),
                       Text(<<"\n","$"," ","p","w","d">>)>>
    /\ extracted # NotExtracted
    /\ extracted.command = <<"l","s"," ","-","l","a">>

\* C13: the command returned is empty or passes isValidCommand, and the
\* fullOutput returned is the reply's text parts joined in order, whether
\* or not a command was found.
C13_ValidOrEmpty ==
    extracted # NotExtracted =>
        /\ extracted.command = <<>> \/ isValidCommand(extracted.command)
        /\ extracted.fullOutput = ReplyText(modelOutput)

\* a keyword line whose candidate is a bare path gave no command, and the
\* text came back whole
C13_Witness ==
    /\ modelOutput = <<Text(<<"r","u","n",":"," ","/","u","s","r","/","l","o","c","a",
            "l","/","b","i","n">>), Blob>>
    /\ extracted # NotExtracted
    /\ extracted.command = <<>>
    /\ extracted.fullOutput = <<"r","u","n",":"," ","/","u","s","r","/","l","o","c","a",
            "l","/","b","i","n">>

\* a single line that begins with "/" and has no space and none of the
\* characters | & ; < > ( ) $ ` \ " '
IsBarePath(text) ==
    /\ HasPrefix(text, <<"/">>)
    /\ \A i \in 1..Len(text) : text[i] \notin PathBreakers \cup {"\n"}

\* C14: a bare path is never returned as the command, and a reply whose
\* text is nothing but a bare path gives the empty command and the reply
\* as fullOutput.
C14_BarePathRejected ==
    extracted # NotExtracted =>
        /\ ~IsBarePath(extracted.command)
        /\ IsBarePath(TrimSpace(ReplyText(modelOutput))) =>
                /\ extracted.command = <<>>
                /\ extracted.fullOutput = ReplyText(modelOutput)

\* "/usr/local/bin" alone gave the empty command and itself as fullOutput
C14_Witness ==
    /\ modelOutput = <<Text(<<"/","u","s","r","/","l","o","c","a","l","/","b","i","n">>)>>
    /\ extracted = [fullOutput |-> <<"/","u","s","r","/","l","o","c","a","l","/","b","i","n">>,
                    command |-> <<>>]

\* a fenced block opens at index i of s: three backticks, one of the tags
\* or none, and a newline; the index at which its content begins
FenceOpens(s, i) ==
    /\ HasAt(s, i, Backticks3)
    /\ \/ HasAt(s, i + 3, Newline)
       \/ \E k \in 1..Len(FenceTags) : HasAt(s, i + 3, FenceTags[k] \o Newline)

FenceContentAt(s, i) == LineEnd(s, i + 3) + 1

\* the indexes at which a newline and three backticks close a block whose
\* content begins at index first
FenceCloses(s, first) ==
    {j \in first..Len(s) : HasAt(s, j, Newline \o Backticks3)}

\* the first fenced block of s, of however many lines, and its content
FirstFencedBlock(s) ==
    LET at == {i \in 1..Len(s) :
                  /\ FenceOpens(s, i)
                  /\ FenceCloses(s, FenceContentAt(s, i)) # {}}
        first == FenceContentAt(s, SetMin(at))
    IN  IF at = {} THEN NoMatch
        ELSE Match(SubSeq(s, first, SetMin(FenceCloses(s, first)) - 1))

\* C29: when the reply contains a fenced code block, tagged bash, shell,
\* zsh, cmd or powershell or untagged, and the trimmed content of the first
\* such block, of one line or of several, is a valid command, that content
\* is the command returned.
C29_FirstBlockAnyLines ==
    extracted # NotExtracted =>
        LET block == FirstFencedBlock(ReplyText(modelOutput))
        IN  (block.found /\ isValidCommand(TrimSpace(block.text)))
                => extracted.command = TrimSpace(block.text)

\* the same for the blocks whose content is a single line
C29_SingleLineBlocks ==
    extracted # NotExtracted =>
        LET block == FirstFencedBlock(ReplyText(modelOutput))
        IN  (/\ block.found
             /\ "\n" \notin {TrimSpace(block.text)[i] : i \in 1..Len(TrimSpace(block.text))}
             /\ isValidCommand(TrimSpace(block.text)))
                => extracted.command = TrimSpace(block.text)

\* the candidates the four strategies offer for the text s
Candidates(s) ==
    {TrimSpace(m.text) : m \in {m \in {FindCodeBlock(s), FindInlineCode(s),
                                       FindKeyword(s)} : m.found}}
        \cup {StripMarkers(TrimSpace(SplitLines(s)[i])) :
                i \in {i \in 1..Len(SplitLines(s)) :
                            IsMarked(TrimSpace(SplitLines(s)[i]))}}

\* the text begins with the characters of one of the common commands
BeginsWithVerb(text) ==
    \E k \in 1..Len(commonCmds) : HasPrefix(text, commonCmds[k])

\* the text is one of the common commands, or one followed by a space
VerbThenSpace(text) ==
    \E k \in 1..Len(commonCmds) :
        \/ text = commonCmds[k]
        \/ HasPrefix(text, commonCmds[k] \o <<" ">>)

----------------------------------------------------------------------------
(* pkg/gemini/chat.go: one chat session and the backend it talks to *)

MaxTurns == 2
MaxSends == 3
ChatTPM == 30

MaxSize == 104857600

\* the instant at which the session is opened
SessionStart == 50 * Second

\* the model configuration of the session
ChatModelConfig == [ModelConfig EXCEPT !.TPM = ChatTPM]

ErrExecution(message) == [Type |-> "execution_error", Message |-> message]
ErrInput(message) == [Type |-> "input_error", Message |-> message]

\* types.GetSystemInfo() of the machine the session runs on
SystemInfo ==
    [OS |-> <<"l","i","n","u","x">>,
     Shell |-> <<"b","a","s","h">>,
     WorkingDir |-> <<"/","h","o","m","e","/","u">>]

SystemPrompt ==
    <<"S","u","g","g","e","s","t"," ","s","h","e","l","l"," ","c","o","m","m","a","n","d","s",".">>

NewChatContext(t) ==
    [WorkingDir |-> SystemInfo.WorkingDir,
     LastCommand |-> <<>>,
     LastOutput |-> <<>>,
     SystemInfo |-> SystemInfo,
     LastModified |-> t,
     SessionStart |-> t,
     CommandCount |-> 0,
     ErrorCount |-> 0]

\* the prefix rendered in front of the user's text
addContext(c, message) ==
    Concat(<<
        <<"C","u","r","r","e","n","t"," ","d","i","r","e","c","t","o","r","y",":"," ">>, c.WorkingDir,
        <<"\n","L","a","s","t"," ","c","o","m","m","a","n","d",":"," ">>, c.LastCommand,
        <<"\n","L","a","s","t"," ","o","u","t","p","u","t",":"," ">>, c.LastOutput,
        <<"\n","O","S",":"," ">>, c.SystemInfo.OS,
        <<"\n","S","h","e","l","l",":"," ">>, c.SystemInfo.Shell,
        <<"\n","\n","U","s","e","r"," ","r","e","q","u","e","s","t",":"," ">>, message>>)

\* c.currentContext.ErrorCount++
CountError_Forgotten(c) == c

CountError(c) == [c EXCEPT !.ErrorCount = @ + 1]

\* the context update counting only the turns that gave a command
UpdateContext_CommandsOnly(c, cmd, t) ==
    [c EXCEPT !.LastCommand = cmd, !.LastModified = t,
              !.CommandCount = IF cmd = <<>> THEN @ ELSE @ + 1]

\* the context update keeping the last command when the turn gave none
UpdateContext_KeepsCommand(c, cmd, t) ==
    [c EXCEPT !.LastCommand = IF cmd = <<>> THEN @ ELSE cmd,
              !.LastModified = t, !.CommandCount = @ + 1]

\* the context update of a turn
UpdateContext(c, cmd, t) ==
    [c EXCEPT !.LastCommand = cmd, !.LastModified = t, !.CommandCount = @ + 1]

\* if err := c.rateLimiter.CheckLimit(); err != nil { return ..., err }
GateRefuses_Never(err) == FALSE

GateRefuses(err) == err # NoError

----------------------------------------------------------------------------
(* pkg/types: FileReader, and the files on the disk *)

\* filepath.Ext: the suffix from the last dot of the last path element
Ext(path) ==
    LET dots == {i \in 1..Len(path) :
                    /\ path[i] = "."
                    /\ \A j \in i..Len(path) : path[j] # "/"}
    IN  IF dots = {} THEN <<>> ELSE SubSeq(path, SetMax(dots), Len(path))

AllowedTypes ==
    [text |-> {<<".","t","x","t">>, <<".","m","d">>, <<".","j","s","o","n">>, <<".","y","a","m","l">>, <<".","y","m","l">>},
     image |-> {<<".","p","n","g">>, <<".","j","p","g">>, <<".","j","p","e","g">>, <<".","g","i","f">>, <<".","w","e","b","p">>},
     audio |-> {<<".","m","p","3">>, <<".","w","a","v">>, <<".","o","g","g">>, <<".","m","4","a">>},
     pdf |-> {<<".","p","d","f">>},
     video |-> {<<".","m","p","4">>, <<".","w","e","b","m">>, <<".","m","o","v">>}]

determineFileType(ext) ==
    LET e == Ext(ext)
        types == {ft \in DOMAIN AllowedTypes : e \in AllowedTypes[ft]}
    IN  IF types = {}
        THEN [err |-> ErrInput("unsupported file extension"), type |-> ""]
        ELSE [err |-> NoError, type |-> CHOOSE ft \in types : TRUE]

NotesTxt == <<"n","o","t","e","s",".","t","x","t">>
ShotPng == <<"i","m","g","/","s","h","o","t",".","p","n","g">>
ScanPng == <<"s","c","a","n",".","v","2",".","p","n","g">>
DocPdf == <<"d","o","c",".","p","d","f">>
SongMp3 == <<"s","o","n","g",".","m","p","3">>
ToolBin == <<"b","i","n",".","d","/","t","o","o","l">>
HugePng == <<"h","u","g","e",".","p","n","g">>
GoneTxt == <<"g","o","n","e",".","t","x","t">>

\* the files that exist, their size in bytes and (for text) their bytes
Disk ==
    {[path |-> NotesTxt, size |-> 5, data |-> <<"h","e","l","l","o">>],
     [path |-> ShotPng, size |-> 60 * 1024 * 1024, data |-> <<>>],
     [path |-> ScanPng, size |-> 50 * 1024 * 1024, data |-> <<>>],
     [path |-> DocPdf, size |-> 1000, data |-> <<>>],
     [path |-> SongMp3, size |-> 1000, data |-> <<>>],
     [path |-> ToolBin, size |-> 1000, data |-> <<>>],
     [path |-> HugePng, size |-> MaxSize + 1, data |-> <<>>]}

\* os.Stat(path)
Exists(path) == \E f \in Disk : f.path = path
Stat(path) == CHOOSE f \in Disk : f.path = path

NoContent == [Type |-> "", Data |-> <<>>, Size |-> 0]

\* the allowed base path is empty, so every path passes the prefix test
ReadFile(path) ==
    IF ~Exists(path)
    THEN [err |-> ErrInput("failed to stat file"), content |-> NoContent]
    ELSE IF Stat(path).size > MaxSize
    THEN [err |-> ErrInput("file too large"), content |-> NoContent]
    ELSE LET ft == determineFileType(Ext(path))
         IN  IF ft.err # NoError
             THEN [err |-> ft.err, content |-> NoContent]
             ELSE [err |-> NoError,
                   content |-> [Type |-> ft.type,
                                Data |-> Stat(path).data,
                                Size |-> Stat(path).size]]

\* createPartFromContent with a PDF extraction that succeeds
createPartFromContent_PdfAsText(content) ==
    CASE content.Type = "image" -> [err |-> NoError, part |-> Blob]
      [] content.Type = "text" -> [err |-> NoError, part |-> Text(content.Data)]
      [] content.Type = "pdf" -> [err |-> NoError, part |-> Text(content.Data)]
      [] OTHER -> [err |-> ErrInput("unsupported file type"), part |-> Blob]

\* extractTextFromPDF is not implemented and always fails
createPartFromContent(content) ==
    CASE content.Type = "image" -> [err |-> NoError, part |-> Blob]
      [] content.Type = "text" -> [err |-> NoError, part |-> Text(content.Data)]
      [] content.Type = "pdf" ->
            [err |-> ErrInput("failed to extract text from PDF"), part |-> Blob]
      [] OTHER -> [err |-> ErrInput("unsupported file type"), part |-> Blob]

\* the loop of SendWithFiles over the attached files
RECURSIVE ProcessFiles(_, _, _, _)
ProcessFiles(files, parts, processedFiles, totalSize) ==
    LET fail(e) == [err |-> e, parts |-> parts, processedFiles |-> processedFiles]
    IN  IF files = <<>>
        THEN [err |-> NoError, parts |-> parts, processedFiles |-> processedFiles]
        ELSE IF ~Exists(Head(files)) THEN fail(ErrInput("file not found"))
        ELSE LET rd == ReadFile(Head(files))
                 total == totalSize + rd.content.Size
                 made == createPartFromContent(rd.content)
             IN  IF rd.err # NoError THEN fail(ErrInput("failed to process file"))
                 ELSE IF total > MaxSize
                 THEN fail(ErrInput("total file size exceeds limit"))
                 ELSE IF made.err # NoError THEN fail(made.err)
                 ELSE ProcessFiles(Tail(files), Append(parts, made.part),
                                   Append(processedFiles, Head(files)), total)

----------------------------------------------------------------------------
(* What the backend may answer to GenerateContent *)

NilContent == [isNil |-> TRUE, Parts |-> <<>>]
Content(parts) == [isNil |-> FALSE, Parts |-> parts]
BackendError(cause) == [err |-> cause, Candidates |-> <<>>]
Response(candidates) == [err |-> "nil", Candidates |-> candidates]
Candidate(content) == [Content |-> content]

FencedReply ==
    <<Backtick,Backtick,Backtick,"b","a","s","h","\n","l","s"," ","-",
          "l","a","\n",Backtick,Backtick,Backtick>>
PlainReply ==
    <<"N","o","t","h","i","n","g"," ","t","o"," ","r","u","n",":"," ",
          "/","u","s","r","/","l","o","c","a","l","/","b","i","n"," ","i",
          "s"," ","a"," ","d","i","r","e","c","t","o","r","y",".">>

Replies ==
    {BackendError("unavailable"),
     BackendError("context canceled"),
     Response(<<>>),
     Response(<<Candidate(NilContent)>>),
     Response(<<Candidate(Content(<<>>))>>),
     Response(<<Candidate(Content(<<Text(FencedReply)>>))>>),
     Response(<<Candidate(Content(<<Text(PlainReply)>>))>>),
     Response(<<Candidate(Content(<<Text(<<"E","x","e","c","u","t","e",":"," ">>), Blob,
                                    Text(<<"g","i","t"," ","s","t","a","t","u","s">>)>>)),
                Candidate(Content(<<Text(FencedReply)>>))>>)}

Messages == {<<"l","i","s","t"," ","f","i","l","e","s">>}

FileLists ==
    {<<NotesTxt, ScanPng>>, <<ShotPng, ScanPng>>, <<GoneTxt>>,
     <<DocPdf>>, <<NotesTxt, DocPdf>>, <<SongMp3>>, <<ToolBin>>, <<HugePng>>}

----------------------------------------------------------------------------
(* Chat.Send and Chat.SendWithFiles.  A call is two steps of the session: *)
(* up to the moment the request is with the backend, and from the         *)
(* backend's answer to the return.                                        *)

NoResponse == [Code |-> <<>>, FullOutput |-> <<>>, tokens_used |-> 0]
NoReply == [err |-> "none", Candidates |-> <<>>]
NoCallInFlight == [op |-> "none"]
NothingReturned == [op |-> "none", stage |-> "none", err |-> NoError]
StillRunning == [op |-> "running", stage |-> "none", err |-> NoError]

\* Chat.currentContext after Close, and what a call returns when it panics
\* on it (the goroutine does not return: the process stops)
NilContext == [isNil |-> TRUE]
NilDereference == [Type |-> "panic", Message |-> "nil pointer dereference"]
Crashed == returned.stage = "panic"

\* what the session looked like when the call was made
Snapshot == [ctx |-> ctx, sent |-> Len(sent), history |-> Len(history),
             limiter |-> limiter, at |-> now]

\* a failed call giving its admission back to the limiter
Fail_Refunds(c, r, h, stage, message) ==
    [ctx |-> CountError(c),
     limiter |-> [r EXCEPT !.requestCount = @ - 1, !.dailyCount = @ - 1],
     history |-> h, stage |-> stage,
     err |-> ErrExecution(message), resp |-> NoResponse]

\* the return of a call that ends at the given stage with an execution error
Fail(c, r, h, stage, message) ==
    [ctx |-> CountError(c), limiter |-> r, history |-> h, stage |-> stage,
     err |-> ErrExecution(message), resp |-> NoResponse]

\* the return of a turn: the error of TrackTokens, or the response
Respond(c, h, tracked, ex, tokenCount) ==
    [ctx |-> c, limiter |-> tracked.limiter, history |-> h,
     stage |-> IF tracked.err # NoError THEN "track" ELSE "done",
     err |-> tracked.err,
     resp |-> IF tracked.err # NoError THEN NoResponse
              ELSE [Code |-> ex.command, FullOutput |-> ex.fullOutput,
                    tokens_used |-> tokenCount]]

\* lines 111-128 of Send: history, context, token count
SendTurn(call, content, ex, c, r, h, t, tokenCount) ==
    Respond(UpdateContext(c, ex.command, t),
            h \o <<[Role |-> "user",
                    Parts |-> <<Text(call.contextualMessage)>>],
                   [Role |-> "model", Parts |-> content.Parts]>>,
            TrackTokens(r, tokenCount, t), ex, tokenCount)

\* lines 227-238 of SendWithFiles: context, token count
SendWithFilesTurn(call, content, ex, c, r, h, t, tokenCount) ==
    Respond(UpdateContext(c, ex.command, t), h,
            TrackTokens(r, tokenCount, t), ex, tokenCount)

\* the text whose tokens each call counts
SendTokens(call, ex) ==
    estimateTokenCount(call.contextualMessage \o ex.fullOutput)
SendWithFilesTokens(call, ex) ==
    estimateTokenCount(call.message \o ex.fullOutput)

\* lines 93-143 of Send: from the backend's answer to the return
SendExtract(call, content, ex, c, r, h, t) ==
    SendTurn(call, content, ex, c, r, h, t, SendTokens(call, ex))

SendReply(call, reply, c, r, h, t) ==
    IF reply.err # "nil"
    THEN Fail(c, r, h, "backend", "failed to generate content")
    ELSE IF Len(reply.Candidates) = 0
    THEN Fail(c, r, h, "candidates", "no response generated")
    ELSE IF \/ reply.Candidates[1].Content.isNil
            \/ Len(reply.Candidates[1].Content.Parts) = 0
    THEN Fail(c, r, h, "content", "empty response content")
    ELSE SendExtract(call, reply.Candidates[1].Content,
                 extractCommandAndOutput(reply.Candidates[1].Content.Parts),
                 c, r, h, t)

\* lines 210-254 of SendWithFiles: from the backend's answer to the return
SendWithFilesExtract(call, content, ex, c, r, h, t) ==
    SendWithFilesTurn(call, content, ex, c, r, h, t,
                      SendWithFilesTokens(call, ex))

SendWithFilesReply(call, reply, c, r, h, t) ==
    IF reply.err # "nil"
    THEN Fail(c, r, h, "backend", "failed to generate content")
    ELSE IF Len(reply.Candidates) = 0
    THEN Fail(c, r, h, "candidates", "no response generated")
    ELSE IF reply.Candidates[1].Content.isNil
    THEN Fail(c, r, h, "content", "empty response content")
    ELSE SendWithFilesExtract(call, reply.Candidates[1].Content,
                 extractCommandAndOutput(reply.Candidates[1].Content.Parts),
                 c, r, h, t)

InitChat ==
    /\ now = SessionStart
    /\ steps = 0
    /\ limiter = NewRateLimiter(ChatModelConfig, now)
    /\ lastCall = NoCall
    /\ windowAdmits = 0
    /\ admissions = <<>>
    /\ dayAdmits = 0
    /\ CallersIdle
    /\ NoProvider
    /\ NoExtraction
    /\ NoExecutor
    /\ ctx = NewChatContext(now)
    /\ history = <<[Role |-> "system", Parts |-> <<Text(SystemPrompt)>>]>>
    /\ inflight = NoCallInFlight
    /\ sent = <<>>
    /\ returned = NothingReturned
    /\ turns = 0
    /\ inputErrors = 0

\* a minute passes, also while a request is with the backend
Elapse ==
    /\ steps < MaxTicks
    /\ turns < MaxSends \/ inflight # NoCallInFlight
    /\ now' = now + Minute
    /\ steps' = steps + 1
    /\ UNCHANGED <<limiterVars, callerVars, sessionVars, execVars, extractVars, providerVars>>

\* lines 80-93 of Send: the gate, the prompt, the request
SendCall(message) ==
    /\ inflight = NoCallInFlight
    /\ ~Crashed
    /\ turns < MaxSends
    /\ turns' = turns + 1
    /\ LET gate == CheckLimit(limiter, now)
           contextualMessage == addContext(ctx, message)
           parts == <<Text(contextualMessage)>>
       IN  /\ limiter' = gate.limiter
           /\ IF GateRefuses(gate.err)
              THEN /\ returned' = [op |-> "Send", stage |-> "gate",
                                   err |-> gate.err, resp |-> NoResponse,
                                   before |-> Snapshot, message |-> message,
                                   files |-> <<>>, reply |-> NoReply]
                   /\ UNCHANGED <<inflight, sent>>
              ELSE IF ctx = NilContext
              THEN /\ returned' = [op |-> "Send", stage |-> "panic",
                                   err |-> NilDereference, resp |-> NoResponse,
                                   before |-> Snapshot, message |-> message,
                                   files |-> <<>>, reply |-> NoReply]
                   /\ UNCHANGED <<inflight, sent>>
              ELSE /\ inflight' = [op |-> "Send", message |-> message,
                                   contextualMessage |-> contextualMessage,
                                   parts |-> parts, files |-> <<>>,
                                   processedFiles |-> <<>>,
                                   before |-> Snapshot]
                   /\ sent' = Append(sent, [parts |-> parts, gate |-> gate.err])
                   /\ returned' = StillRunning
    /\ UNCHANGED <<ctx, history, inputErrors>>
    /\ UNCHANGED <<now, steps, lastCall, windowAdmits, admissions, dayAdmits, callerVars, execVars, extractVars, providerVars>>

\* lines 168-210 of SendWithFiles: the gate, the prompt, the files, the request
SendWithFilesCall(message, files) ==
    /\ inflight = NoCallInFlight
    /\ ~Crashed
    /\ turns < MaxTurns
    /\ turns' = turns + 1
    /\ LET gate == CheckLimit(limiter, now)
           contextualMessage == addContext(ctx, message)
           read == ProcessFiles(files, <<Text(contextualMessage)>>, <<>>, 0)
       IN  /\ limiter' = gate.limiter
           /\ inputErrors' =
                IF /\ ~GateRefuses(gate.err)
                   /\ ctx # NilContext
                   /\ read.err.Type = "input_error"
                THEN inputErrors + 1 ELSE inputErrors
           /\ IF GateRefuses(gate.err)
              THEN /\ returned' = [op |-> "SendWithFiles", stage |-> "gate",
                                   err |-> gate.err, resp |-> NoResponse,
                                   before |-> Snapshot, message |-> message,
                                   files |-> files, reply |-> NoReply]
                   /\ UNCHANGED <<inflight, sent>>
              ELSE IF ctx = NilContext
              THEN /\ returned' = [op |-> "SendWithFiles", stage |-> "panic",
                                   err |-> NilDereference, resp |-> NoResponse,
                                   before |-> Snapshot, message |-> message,
                                   files |-> files, reply |-> NoReply]
                   /\ UNCHANGED <<inflight, sent>>
              ELSE IF read.err # NoError
              THEN /\ returned' = [op |-> "SendWithFiles", stage |-> "files",
                                   err |-> read.err, resp |-> NoResponse,
                                   before |-> Snapshot, message |-> message,
                                   files |-> files, reply |-> NoReply]
                   /\ UNCHANGED <<inflight, sent>>
              ELSE /\ inflight' = [op |-> "SendWithFiles", message |-> message,
                                   contextualMessage |-> contextualMessage,
                                   parts |-> read.parts, files |-> files,
                                   processedFiles |-> read.processedFiles,
                                   before |-> Snapshot]
                   /\ sent' = Append(sent, [parts |-> read.parts,
                                            gate |-> gate.err])
                   /\ returned' = StillRunning
    /\ UNCHANGED <<ctx, history>>
    /\ UNCHANGED <<now, steps, lastCall, windowAdmits, admissions, dayAdmits, callerVars, execVars, extractVars, providerVars>>

\* the return of the call in flight
Return(out, reply) ==
    /\ ctx' = out.ctx
    /\ limiter' = out.limiter
    /\ history' = out.history
    /\ returned' = [op |-> inflight.op, stage |-> out.stage,
                    err |-> out.err, resp |-> out.resp,
                    before |-> inflight.before,
                    message |-> inflight.message,
                    files |-> inflight.files, reply |-> reply]
    /\ inflight' = NoCallInFlight

\* GenerateContent returns and the call runs to its return
BackendReplies(reply) ==
    /\ inflight # NoCallInFlight
    /\ Return(IF inflight.op = "Send"
              THEN SendReply(inflight, reply, ctx, limiter, history, now)
              ELSE SendWithFilesReply(inflight, reply, ctx, limiter,
                                      history, now),
              reply)
    /\ UNCHANGED <<sent, turns, inputErrors>>
    /\ UNCHANGED <<now, steps, lastCall, windowAdmits, admissions, dayAdmits, callerVars, execVars, extractVars, providerVars>>

NextChat ==
    \/ Elapse
    \/ \E message \in Messages : SendCall(message)
    \/ \E message \in Messages, files \in FileLists :
            SendWithFilesCall(message, files)
    \/ \E reply \in Replies : BackendReplies(reply)

SpecChat == InitChat /\ [][NextChat]_vars

\* Chat.Close, lines 442-446, called between two calls of the session
Close ==
    /\ inflight = NoCallInFlight
    /\ ~Crashed
    /\ ctx # NilContext
    /\ ctx' = NilContext
    /\ history' = <<>>
    /\ returned' = [op |-> "Close", stage |-> "done", err |-> NoError]
    /\ UNCHANGED <<inflight, sent, turns, inputErrors>>
    /\ UNCHANGED <<clockVars, limiterVars, callerVars, execVars, extractVars, providerVars>>

NextClose ==
    \/ Elapse
    \/ \E message \in Messages : SendCall(message)
    \/ \E message \in Messages, files \in FileLists :
            SendWithFilesCall(message, files)
    \/ \E reply \in Replies : BackendReplies(reply)
    \/ Close

\* a session that is used and closed
SpecClose == InitChat /\ [][NextClose]_vars

\* a step that is one call of Send or SendWithFiles on a closed session
IsClosedCallStep == ctx = NilContext /\ turns' = turns + 1

\* C37: after Close, every Send or SendWithFiles returns an error value
\* without crashing on the discarded context, does not invoke the backend,
\* and does not consume a rate-limiter slot.
C37_ClosedSessionUnusable ==
    [][IsClosedCallStep =>
        /\ returned'.err.Type \notin {"nil", "panic"}
        /\ sent' = sent /\ inflight' = NoCallInFlight
        /\ limiter'.requestCount = RollWindows(limiter, now).requestCount
        /\ limiter'.dailyCount = RollWindows(limiter, now).dailyCount]_vars

\* C37, what the code does: the call passes the gate first, so a refused
\* call returns the limiter's error, and an admitted call has consumed its
\* slot when addContext dereferences the nil context; the backend is not
\* reached either way
C37_ClosedCallCrashes ==
    [][IsClosedCallStep =>
        LET gate == CheckLimit(limiter, now)
        IN  /\ sent' = sent /\ inflight' = NoCallInFlight
            /\ limiter' = gate.limiter
            /\ returned'.err = IF gate.err # NoError THEN gate.err
                               ELSE NilDereference]_vars

\* a Send on a closed session that was admitted and then panicked
C37_Crash ==
    /\ ctx = NilContext
    /\ Crashed
    /\ returned.op = "Send"
    /\ limiter.requestCount = returned.before.limiter.requestCount + 1

----------------------------------------------------------------------------
(* Properties of the chat session, under SpecChat *)

\* a call of Send or SendWithFiles has returned and no other has begun
HasReturned == returned.op \in {"Send", "SendWithFiles"}

\* the call that returned got an answer from the backend
GotReply == HasReturned /\ returned.reply # NoReply

\* the backend answered without an error, but with no candidate, a candidate
\* without content, or content without parts
EmptyReply ==
    /\ GotReply
    /\ returned.reply.err = "nil"
    /\ \/ Len(returned.reply.Candidates) = 0
       \/ returned.reply.Candidates[1].Content.isNil
       \/ Len(returned.reply.Candidates[1].Content.Parts) = 0

\* C4: every request the backend received was made by a call that CheckLimit
\* had admitted, and a call that CheckLimit refused returned the rate-limit
\* error of CheckLimit, made no request to the backend and left the
\* conversation context (lastCommand, commandCount, errorCount) as it was.
C4_BackendOnlyAfterAdmission ==
    /\ \A i \in 1..Len(sent) : sent[i].gate = NoError
    /\ inflight # NoCallInFlight => Len(sent) = inflight.before.sent + 1
    /\ (HasReturned /\ CheckLimit(returned.before.limiter,
                                  returned.before.at).err # NoError) =>
          /\ returned.err = CheckLimit(returned.before.limiter,
                                       returned.before.at).err
          /\ returned.err.Type = "rate_limit_error"
          /\ Len(sent) = returned.before.sent
          /\ ctx.LastCommand = returned.before.ctx.LastCommand
          /\ ctx.CommandCount = returned.before.ctx.CommandCount
          /\ ctx.ErrorCount = returned.before.ctx.ErrorCount

\* a call made after a completed turn was refused at the gate
C4_Witness ==
    /\ HasReturned
    /\ returned.stage = "gate"
    /\ returned.before.ctx.CommandCount > 0
    /\ returned.before.sent > 0

\* C5: whenever Send or SendWithFiles returns an error of any kind,
\* lastCommand and commandCount have the values they had before the call.
C5_ContextOnlyOnSuccess ==
    (HasReturned /\ returned.err # NoError) =>
        /\ ctx.LastCommand = returned.before.ctx.LastCommand
        /\ ctx.CommandCount = returned.before.ctx.CommandCount

\* C6: when the backend call itself returns an error, cancellation
\* included, the call returns an execution_error, errorCount has grown by
\* exactly one, lastCommand, lastOutput and commandCount are unchanged, and
\* the prompt rendered from the context now is the prompt that was sent in
\* the failed turn.
C6_BackendErrorCounted ==
    (GotReply /\ returned.reply.err # "nil") =>
        /\ returned.err.Type = "execution_error"
        /\ ctx.ErrorCount = returned.before.ctx.ErrorCount + 1
        /\ ctx.LastCommand = returned.before.ctx.LastCommand
        /\ ctx.LastOutput = returned.before.ctx.LastOutput
        /\ ctx.CommandCount = returned.before.ctx.CommandCount
        /\ sent[returned.before.sent + 1].parts[1]
                = Text(addContext(ctx, returned.message))

\* each of Send and SendWithFiles had its backend call cancelled after a
\* turn that left a command in the context
C6_Witness ==
    /\ GotReply
    /\ returned.reply.err = "context canceled"
    /\ returned.before.ctx.LastCommand # <<>>

\* C7: on a reply with no candidates, a candidate with no content, or a
\* candidate whose content has zero parts, Send and SendWithFiles return an
\* execution_error and errorCount has grown by one.
C7_EmptyReplyFails ==
    EmptyReply =>
        /\ returned.err.Type = "execution_error"
        /\ ctx.ErrorCount = returned.before.ctx.ErrorCount + 1

\* the bytes of the first n of the files, a missing file counting for none
RECURSIVE SizeOfFirst(_, _)
SizeOfFirst(files, n) ==
    IF n = 0 THEN 0
    ELSE SizeOfFirst(files, n - 1)
            + (IF Exists(files[n]) THEN Stat(files[n]).size ELSE 0)

\* the extensions the file reader accepts, and those of them that
\* SendWithFiles can turn into a part
KnownExtensions == UNION {AllowedTypes[ft] : ft \in DOMAIN AllowedTypes}
UsableExtensions == AllowedTypes.text \cup AllowedTypes.image

\* one of the files is missing, has an extension that is not accepted or
\* is of a type that cannot be sent (a PDF among them), or the files up to
\* it are larger together than MaxSize
AttachmentFails(files) ==
    \E i \in 1..Len(files) :
        \/ ~Exists(files[i])
        \/ Ext(files[i]) \notin KnownExtensions
        \/ Ext(files[i]) \notin UsableExtensions
        \/ SizeOfFirst(files, i) > MaxSize

\* the call that returned was admitted by CheckLimit
WasAdmitted ==
    CheckLimit(returned.before.limiter, returned.before.at).err = NoError

\* C17: when SendWithFiles, admitted by the limiter, is given a missing
\* file, a file with an unsupported extension or type, a PDF, or files
\* whose sizes added up in order exceed MaxSize, it returns an input_error,
\* the backend receives no request, and lastCommand, commandCount and
\* errorCount are as they were before the call.
C17_AttachmentFailure ==
    (/\ HasReturned
     /\ returned.op = "SendWithFiles"
     /\ WasAdmitted
     /\ AttachmentFails(returned.files)) =>
        /\ returned.err.Type = "input_error"
        /\ returned.reply = NoReply
        /\ Len(sent) = returned.before.sent
        /\ ctx.LastCommand = returned.before.ctx.LastCommand
        /\ ctx.CommandCount = returned.before.ctx.CommandCount
        /\ ctx.ErrorCount = returned.before.ctx.ErrorCount

\* after a completed turn, two images of 60 MB and 50 MB were refused for
\* their total size
C17_Witness ==
    /\ HasReturned
    /\ returned.op = "SendWithFiles"
    /\ returned.files = <<ShotPng, ScanPng>>
    /\ returned.err = ErrInput("total file size exceeds limit")
    /\ returned.before.ctx.CommandCount > 0
    /\ returned.before.sent > 0

\* C18: after every exchange that returns without error, lastCommand is
\* the command extracted from the reply and lastOutput is no longer the
\* value it had before the exchange, so that the "Last output" line of the
\* next prompt has changed.
C18_LastOutputUpdated ==
    (HasReturned /\ returned.err = NoError) =>
        /\ ctx.LastCommand = returned.resp.Code
        /\ ctx.LastOutput # returned.before.ctx.LastOutput

\* the step in which the backend's answer comes back and the call returns
IsReplyStep == inflight # NoCallInFlight /\ inflight' = NoCallInFlight

\* the answer is a failure at the level of the backend: an error, no
\* candidate, a candidate without content or, for Send, content without
\* parts
BackendFailure(op, answer) ==
    \/ answer.err # "nil"
    \/ Len(answer.Candidates) = 0
    \/ answer.Candidates[1].Content.isNil
    \/ op = "Send" /\ Len(answer.Candidates[1].Content.Parts) = 0

\* the two counters of the context c after a call that took them from b
Counted(b, c, commands, errors) ==
    /\ c.CommandCount = b.CommandCount + commands
    /\ c.ErrorCount = b.ErrorCount + errors

\* C19: the session starts with commandCount and errorCount at 0; a call
\* whose backend answer is a failure adds exactly 1 to errorCount and
\* nothing to commandCount; a call whose answer reaches the context update
\* adds exactly 1 to commandCount, also when no command was extracted, and
\* nothing to errorCount; no other step changes either counter; the OS and
\* shell of the context and its sessionStart never change.
C19_CountersMonotonic ==
    /\ ctx.CommandCount = 0
    /\ ctx.ErrorCount = 0
    /\ [][/\ IF ~IsReplyStep THEN Counted(ctx, ctx', 0, 0)
            ELSE IF BackendFailure(inflight.op, returned'.reply)
            THEN Counted(ctx, ctx', 0, 1)
            ELSE Counted(ctx, ctx', 1, 0)
          /\ ctx'.SystemInfo = ctx.SystemInfo
          /\ ctx'.SessionStart = ctx.SessionStart]_vars

\* after a turn that failed at the backend, a turn whose reply held no
\* command was counted as a command
C19_Witness ==
    /\ GotReply
    /\ returned.reply = Response(<<Candidate(Content(<<Text(PlainReply)>>))>>)
    /\ ctx.LastCommand = <<>>
    /\ returned.before.ctx.ErrorCount = 1
    /\ returned.before.ctx.CommandCount = 0
    /\ ctx.CommandCount = 1
    /\ ctx.ErrorCount = 1

\* the text of the prompt the call that returned had sent to the backend
PromptSent == sent[returned.before.sent + 1].parts[1].text

\* the last record of the limiter's ledger
LastRecord == limiter.usageHistory[Len(limiter.usageHistory)]

\* C22: after an exchange that returns without error, the token count
\* handed to TrackTokens, which is also the one reported in the response,
\* is estimateTokenCount of the prompt that was sent (context prefix and
\* user text) followed by the reply text, for Send and for SendWithFiles.
C22_TokensOfPromptAndReply ==
    (HasReturned /\ returned.err = NoError) =>
        /\ LastRecord.RequestType = "token_update"
        /\ LastRecord.TokenCount
                = estimateTokenCount(PromptSent \o returned.resp.FullOutput)
        /\ returned.resp.tokens_used = LastRecord.TokenCount

\* the lines of the prompt built from the context c for the user text
PromptLines(c, message) ==
    <<<<"C","u","r","r","e","n","t"," ","d","i","r","e","c","t","o","r",
      "y",":"," ">>
        \o c.WorkingDir,
      <<"L","a","s","t"," ","c","o","m","m","a","n","d",":"," ">>
        \o c.LastCommand,
      <<"L","a","s","t"," ","o","u","t","p","u","t",":"," ">>
        \o c.LastOutput,
      <<"O","S",":"," ">> \o c.SystemInfo.OS,
      <<"S","h","e","l","l",":"," ">> \o c.SystemInfo.Shell,
      <<>>,
      <<"U","s","e","r"," ","r","e","q","u","e","s","t",":"," ">>
        \o message>>

\* a step in which a request goes to the backend
IsPromptStep == Len(sent') = Len(sent) + 1

\* a step in which the call in flight returns
IsReturnStep == inflight # NoCallInFlight /\ inflight' = NoCallInFlight

\* C28: the prompt of every request is the fixed template filled from the
\* context as it is when the call is made and from the user text: working
\* directory, last command, last output, OS, shell, an empty line, the user
\* request.  Its last command is empty until a turn has updated the
\* context and is then the command extracted by the latest turn that did,
\* empty when that turn was informational; a call that fails before the
\* context update leaves it as it was.
C28_PromptFromContext ==
    [][/\ IsPromptStep =>
            /\ SplitLines(sent'[Len(sent')].parts[1].text)
                    = PromptLines(ctx, inflight'.message)
            /\ sent = <<>> => ctx.LastCommand = <<>>
       /\ ctx'.LastCommand =
            IF IsReturnStep /\ returned'.stage \in {"track", "done"}
            THEN extractCommandAndOutput(
                    returned'.reply.Candidates[1].Content.Parts).command
            ELSE ctx.LastCommand]_vars

\* three prompts were sent: the second carries the command of the first
\* turn, the third an empty last command after an informational turn
C28_Witness ==
    /\ Len(sent) = 3
    /\ SplitLines(sent[2].parts[1].text)[2]
            = <<"L","a","s","t"," ","c","o","m","m","a","n","d",":",
                  " ","l","s"," ","-","l","a">>
    /\ SplitLines(sent[3].parts[1].text)[2]
            = <<"L","a","s","t"," ","c","o","m","m","a","n","d",":",
                  " ">>

\* the calls that have passed the gate and not yet returned
CallsInFlight == IF inflight = NoCallInFlight THEN 0 ELSE 1

\* a step in which Send or SendWithFiles is called and passes the gate
IsAdmittedCallStep == turns' = turns + 1 /\ returned'.stage # "gate"

\* C33: every call of Send or SendWithFiles that passes the gate adds 1 to
\* requestCount and to dailyCount, and nothing the call does afterwards
\* gives the slot back, whether it succeeds, fails at the backend or fails
\* on its attachments; with one session on the limiter and no day rollover
\* or Reset, dailyCount is CommandCount plus ErrorCount plus the number of
\* calls that returned an input error, plus the call in flight if any.
C33_SlotsNeverRefunded ==
    /\ [](limiter.dailyCount
            = ctx.CommandCount + ctx.ErrorCount + inputErrors + CallsInFlight)
    /\ [][/\ IsAdmittedCallStep =>
                /\ limiter'.dailyCount = limiter.dailyCount + 1
                /\ limiter'.requestCount
                        = RollWindows(limiter, now).requestCount + 1
          /\ IsReturnStep =>
                /\ limiter'.dailyCount = limiter.dailyCount
                /\ limiter'.requestCount = limiter.requestCount]_vars

\* three calls passed the gate: one failed on its attachments, one failed at
\* the backend and one gave a turn, and the limiter has counted all three
C33_Witness ==
    /\ inflight = NoCallInFlight
    /\ inputErrors = 1
    /\ ctx.ErrorCount = 1
    /\ ctx.CommandCount = 1
    /\ limiter.dailyCount = 3

----------------------------------------------------------------------------
(* pkg/gemini: one Provider and the chat sessions it creates *)

MaxSessions == 2

ModelNames == {"gemini-1.5-pro", "gemini-1.5-flash"}
defaultModel == "gemini-1.5-pro"

\* Provider.models, with the ceilings of the model's bounds
ProviderModels == [m \in ModelNames |-> [ChatModelConfig EXCEPT !.Name = m]]

\* NewProvider: one limiter per model
NewProvider(t) == [m \in ModelNames |-> NewRateLimiter(ProviderModels[m], t)]

NotOpened == [model |-> "", err |-> NotCalled]

ErrModel(message) == [Type |-> "model_error", Message |-> message]

\* the names Provider.Chat may be asked for: the models, none, and a name
\* that is no model of the provider
RequestedModels == ModelNames \cup {"", "gemini-2.0"}

\* Provider.GetModelConfig
GetModelConfig(model) ==
    IF model \in DOMAIN ProviderModels
    THEN [config |-> ProviderModels[model], err |-> NoError]
    ELSE [config |-> <<>>, err |-> ErrModel("unknown model")]

\* Provider.Chat making a new limiter for every session
LimiterForChat_Replaced(limiters, model, t) ==
    (model :> NewRateLimiter(ProviderModels[model], t)) @@ limiters

\* Provider.Chat lines 161-165: the limiter the provider keeps for the
\* model, made only when the provider has none
LimiterForChat(limiters, model, t) ==
    IF model \in DOMAIN limiters THEN limiters
    ELSE (model :> NewRateLimiter(ProviderModels[model], t)) @@ limiters

InitProvider ==
    /\ now = SessionStart
    /\ steps = 0
    /\ limiter = NewRateLimiter(ModelConfig, now)
    /\ lastCall = NoCall
    /\ windowAdmits = 0
    /\ admissions = <<>>
    /\ dayAdmits = 0
    /\ mu = Unlocked
    /\ pc = [p \in Callers |-> "idle"]
    /\ ret = [p \in Callers |-> NotCalled]
    /\ waits = [p \in Callers |-> NoWait]
    /\ rw = NewRWMutex
    /\ providers = <<>>
    /\ NoExtraction
    /\ NoSession
    /\ NoExecutor
    /\ rateLimiters = NewProvider(now)
    /\ chats = <<>>
    /\ acted = 0
    /\ opened = NotOpened

\* Provider.Chat: the session gets the limiter the provider keeps for the
\* model, and a context and a history of its own
ProviderChat(model) ==
    /\ Len(chats) < MaxSessions
    /\ LET name == IF model = "" THEN defaultModel ELSE model
       IN  IF GetModelConfig(name).err # NoError
           THEN /\ opened' = [model |-> model,
                              err |-> ErrModel("failed to get model config")]
                /\ UNCHANGED <<chats, rateLimiters>>
           ELSE /\ opened' = [model |-> model, err |-> NoError]
                /\ rateLimiters' = LimiterForChat(rateLimiters, name, now)
                /\ chats' = Append(chats,
                        [model |-> name,
                         ctx |-> NewChatContext(now),
                         history |-> <<[Role |-> "system",
                                        Parts |-> <<Text(SystemPrompt)>>]>>])
    /\ acted' = 0
    /\ UNCHANGED <<clockVars, limiterVars, callerVars, sessionVars, execVars>>
    /\ UNCHANGED extractVars

\* the session and the limiter of its model after Send
ChatSent(i, gate, out) ==
    /\ rateLimiters' =
            [rateLimiters EXCEPT ![chats[i].model] =
                IF gate.err # NoError THEN gate.limiter ELSE out.limiter]
    /\ chats' =
            IF gate.err # NoError THEN chats
            ELSE [chats EXCEPT ![i].ctx = out.ctx, ![i].history = out.history]

\* Chat.Send in session i, with the answer the backend gives
ChatSend(i, message, reply) ==
    /\ turns < MaxTurns
    /\ ChatSent(i, CheckLimit(rateLimiters[chats[i].model], now),
                SendReply([message |-> message,
                           contextualMessage |->
                                addContext(chats[i].ctx, message)],
                          reply, chats[i].ctx,
                          CheckLimit(rateLimiters[chats[i].model], now).limiter,
                          chats[i].history, now))
    /\ acted' = i
    /\ turns' = turns + 1
    /\ UNCHANGED opened
    /\ UNCHANGED <<ctx, history, inflight, sent, returned, inputErrors>>
    /\ UNCHANGED <<clockVars, limiterVars, callerVars, execVars>>
    /\ UNCHANGED extractVars

NextProvider ==
    \/ \E model \in RequestedModels : ProviderChat(model)
    \/ \E i \in 1..Len(chats), message \in Messages, reply \in Replies :
            ChatSend(i, message, reply)

SpecProvider == InitProvider /\ [][NextProvider]_vars

\* the counters a session observes on its limiter
Counters(r) == <<r.requestCount, r.tokenCount, r.dailyCount>>

\* C21: a Send made in one session changes neither the requestCount,
\* tokenCount and dailyCount that another session of the same provider
\* observes on its limiter nor the other session's context.
C21_SessionsIsolated ==
    [][(acted' # 0) =>
        \A j \in 1..Len(chats) :
            j # acted' =>
                /\ Counters(rateLimiters'[chats[j].model])
                        = Counters(rateLimiters[chats[j].model])
                /\ chats'[j].ctx = chats[j].ctx]_vars

\* the model a Chat call for the given name is about
ModelAsked(model) == IF model = "" THEN defaultModel ELSE model

\* a step that is one Provider.Chat call, and one that is a Send
IsChatStep == acted' = 0 /\ opened'.err # NotCalled
IsSendStep == acted' # 0

\* C31: the provider holds one limiter for each of its models and for
\* nothing else, each with the configuration of its model; Provider.Chat
\* neither makes nor replaces a limiter, so that every session of a model
\* works on the limiter the provider holds for it, with what earlier
\* sessions have counted on it; a Send changes the limiter of its session's
\* model only, and never the windows or the configuration of that one; a
\* Chat call for a name that is no model fails with a model error and
\* leaves the sessions and the limiters as they were.
C31_OneLimiterPerModel ==
    /\ [](/\ DOMAIN rateLimiters = ModelNames
          /\ \A m \in ModelNames : rateLimiters[m].config = ProviderModels[m]
          /\ \A i \in 1..Len(chats) : chats[i].model \in ModelNames)
    /\ [][/\ IsChatStep =>
                /\ rateLimiters' = rateLimiters
                /\ IF ModelAsked(opened'.model) \in ModelNames
                   THEN /\ opened'.err = NoError
                        /\ Len(chats') = Len(chats) + 1
                        /\ chats'[Len(chats')].model = ModelAsked(opened'.model)
                        /\ SubSeq(chats', 1, Len(chats)) = chats
                   ELSE /\ opened'.err.Type = "model_error"
                        /\ chats' = chats
          /\ IsSendStep =>
                /\ \A m \in ModelNames \ {chats[acted'].model} :
                        rateLimiters'[m] = rateLimiters[m]
                /\ \A m \in ModelNames :
                        /\ rateLimiters'[m].lastReset = rateLimiters[m].lastReset
                        /\ rateLimiters'[m].dailyReset = rateLimiters[m].dailyReset
                        /\ rateLimiters'[m].requestCount >= rateLimiters[m].requestCount
                        /\ rateLimiters'[m].dailyCount >= rateLimiters[m].dailyCount
                        /\ rateLimiters'[m].tokenCount >= rateLimiters[m].tokenCount]_vars

\* two sessions of one model have each been admitted once: the limiter of
\* that model has counted both and the other limiter nothing
C31_Witness ==
    /\ Len(chats) = 2
    /\ chats[1].model = "gemini-1.5-flash"
    /\ chats[2].model = "gemini-1.5-flash"
    /\ chats[1].ctx.CommandCount = 1
    /\ chats[2].ctx.CommandCount = 1
    /\ rateLimiters["gemini-1.5-flash"].requestCount = 2
    /\ rateLimiters["gemini-1.5-pro"].requestCount = 0

\* a Chat call for an unknown model failed after a session had been used
C31_UnknownModel ==
    /\ opened.model = "gemini-2.0"
    /\ opened.err.Type = "model_error"
    /\ Len(chats) = 1
    /\ rateLimiters[chats[1].model].requestCount = 1

----------------------------------------------------------------------------
(* Provider.mu: Chat, SetSystemInstruction and Close called by concurrent *)
(* goroutines.  sync.RWMutex makes RLock wait while a goroutine is        *)
(* blocked in Lock, so that the writer gets the lock once the read locks  *)
(* already held are released.                                             *)

\* the places where a goroutine is blocked in Lock()
LockLabels == {"SetSystemInstruction.Lock", "Close.Lock", "Save.Lock",
               "UpdateProviderConfig.Lock", "UpdateProviderConfig.Save.Lock"}

WriterWaiting == \E q \in Callers : pc[q] \in LockLabels

\* RLock() and Lock() return
RLockReady == rw.writer = 0 /\ ~WriterWaiting
LockReady == rw.writer = 0 /\ rw.readers = 0

InitProviderLock ==
    /\ now \in StartTimes
    /\ steps = 0
    /\ limiter = NewRateLimiter(ModelConfig, now)
    /\ lastCall = NoCall
    /\ windowAdmits = 0
    /\ admissions = <<>>
    /\ dayAdmits = 0
    /\ CallersIdle
    /\ NoProvider
    /\ NoExtraction
    /\ NoSession
    /\ NoExecutor

\* a step of goroutine p that changes its place, what its call returns and
\* the lock
Moves(p, label, result, mutex) ==
    /\ pc' = [pc EXCEPT ![p] = label]
    /\ ret' = [ret EXCEPT ![p] = result]
    /\ rw' = mutex
    /\ UNCHANGED <<clockVars, limiterVars, mu, waits, providers>>
    /\ UNCHANGED otherVars

\* a goroutine calls Provider.Chat
ChatCall(p, model) ==
    /\ pc[p] = "idle"
    /\ Moves(p, "Chat.RLock", [op |-> "Chat", model |-> model, err |-> NotCalled], rw)

\* line 149: p.mu.RLock(), and lines 152-154
ChatRLock(p) ==
    /\ pc[p] = "Chat.RLock"
    /\ RLockReady
    /\ Moves(p, "GetModelConfig.RLock",
             [ret[p] EXCEPT !.model = IF @ = "" THEN defaultModel ELSE @],
             [rw EXCEPT !.readers = @ + 1])

\* line 156 and line 245: GetModelConfig takes the read lock again
GetModelConfigRLock(p) ==
    /\ pc[p] = "GetModelConfig.RLock"
    /\ RLockReady
    /\ Moves(p, "GetModelConfig.RUnlock", ret[p], [rw EXCEPT !.readers = @ + 1])

\* lines 246-252: GetModelConfig returns and releases its read lock
GetModelConfigReturn(p) ==
    /\ pc[p] = "GetModelConfig.RUnlock"
    /\ Moves(p, "Chat.RUnlock",
             [ret[p] EXCEPT !.err = GetModelConfig(ret[p].model).err],
             [rw EXCEPT !.readers = @ - 1])

\* lines 157-176 and line 150: Chat returns and releases its read lock
ChatReturn(p) ==
    /\ pc[p] = "Chat.RUnlock"
    /\ Moves(p, "idle",
             [ret[p] EXCEPT !.err = IF @ = NoError THEN NoError
                                    ELSE ErrModel("failed to get model config")],
             [rw EXCEPT !.readers = @ - 1])

\* a goroutine calls SetSystemInstruction, line 280: p.mu.Lock()
SetSystemInstructionCall(p) ==
    /\ pc[p] = "idle"
    /\ Moves(p, "SetSystemInstruction.Lock",
             [op |-> "SetSystemInstruction", err |-> NotCalled], rw)

SetSystemInstructionLock(p) ==
    /\ pc[p] = "SetSystemInstruction.Lock"
    /\ LockReady
    /\ Moves(p, "SetSystemInstruction.Unlock", ret[p], [rw EXCEPT !.writer = p])

\* lines 281-283
SetSystemInstructionReturn(p) ==
    /\ pc[p] = "SetSystemInstruction.Unlock"
    /\ Moves(p, "idle", [ret[p] EXCEPT !.err = NoError], [rw EXCEPT !.writer = 0])

\* a goroutine calls Close, line 325: p.mu.Lock()
CloseCall(p) ==
    /\ pc[p] = "idle"
    /\ Moves(p, "Close.Lock", [op |-> "Close", err |-> NotCalled], rw)

CloseLock(p) ==
    /\ pc[p] = "Close.Lock"
    /\ LockReady
    /\ Moves(p, "Close.Unlock", ret[p], [rw EXCEPT !.writer = p])

\* lines 326-335
CloseReturn(p) ==
    /\ pc[p] = "Close.Unlock"
    /\ Moves(p, "idle", [ret[p] EXCEPT !.err = NoError], [rw EXCEPT !.writer = 0])

\* a step of a call of goroutine p that is under way
ProviderStep(p) ==
    \/ ChatRLock(p)
    \/ GetModelConfigRLock(p)
    \/ GetModelConfigReturn(p)
    \/ ChatReturn(p)
    \/ SetSystemInstructionLock(p)
    \/ SetSystemInstructionReturn(p)
    \/ CloseLock(p)
    \/ CloseReturn(p)

NextProviderLock ==
    \/ \E p \in Callers, model \in RequestedModels : ChatCall(p, model)
    \/ \E p \in Callers : SetSystemInstructionCall(p)
    \/ \E p \in Callers : CloseCall(p)
    \/ \E p \in Callers : ChatRLock(p)
    \/ \E p \in Callers : GetModelConfigRLock(p)
    \/ \E p \in Callers : GetModelConfigReturn(p)
    \/ \E p \in Callers : ChatReturn(p)
    \/ \E p \in Callers : SetSystemInstructionLock(p)
    \/ \E p \in Callers : SetSystemInstructionReturn(p)
    \/ \E p \in Callers : CloseLock(p)
    \/ \E p \in Callers : CloseReturn(p)

\* every goroutine that can take a step is scheduled
SpecProviderLock ==
    /\ InitProviderLock
    /\ [][NextProviderLock]_vars
    /\ \A p \in Callers : WF_vars(ProviderStep(p))

\* C35: Provider.Chat never deadlocks: while a call of Chat,
\* SetSystemInstruction or Close is under way, some goroutine can take its
\* next step, so that every call returns.
C35_ChatNeverDeadlocks ==
    (\E p \in Callers : pc[p] # "idle")
        => \E q \in Callers : ENABLED ProviderStep(q)

\* C35, as the claim words it: every Chat call and every writer returns
C35_EveryCallReturns ==
    \A p \in Callers : (pc[p] # "idle") ~> (pc[p] = "idle")

\* the locking discipline itself holds: a writer excludes everyone else
C35_WriterExcludes ==
    /\ rw.writer # 0 => rw.readers = 0
    /\ rw.readers = Cardinality({p \in Callers :
            pc[p] \in {"GetModelConfig.RLock", "Chat.RUnlock"}})
         + 2 * Cardinality({p \in Callers : pc[p] = "GetModelConfig.RUnlock"})

----------------------------------------------------------------------------
(* Config.mu: Save, GetProviderConfig and UpdateProviderConfig called by  *)
(* concurrent goroutines                                                  *)

ErrConfiguration(message) == [Type |-> "configuration_error", Message |-> message]

\* DefaultConfig: the provider the configuration starts with
GeminiProvider == [Name |-> "gemini", Enabled |-> TRUE]
DefaultProviders == [name \in {"gemini"} |-> GeminiProvider]

\* the names and the settings the calls are made with, and what writing
\* the file may return
ProviderNames == {"gemini", "openai"}
ProviderConfigs == {GeminiProvider, [Name |-> "openai", Enabled |-> FALSE]}
WriteResults == {NoError, ErrConfiguration("failed to write config")}

InitConfigLock ==
    /\ now \in StartTimes
    /\ steps = 0
    /\ limiter = NewRateLimiter(ModelConfig, now)
    /\ lastCall = NoCall
    /\ windowAdmits = 0
    /\ admissions = <<>>
    /\ dayAdmits = 0
    /\ mu = Unlocked
    /\ pc = [p \in Callers |-> "idle"]
    /\ ret = [p \in Callers |-> NotCalled]
    /\ waits = [p \in Callers |-> NoWait]
    /\ rw = NewRWMutex
    /\ providers = DefaultProviders
    /\ NoProvider
    /\ NoExtraction
    /\ NoSession
    /\ NoExecutor

\* a step of goroutine p on the configuration
ConfigMoves(p, label, result, mutex, stored) ==
    /\ pc' = [pc EXCEPT ![p] = label]
    /\ ret' = [ret EXCEPT ![p] = result]
    /\ rw' = mutex
    /\ providers' = stored
    /\ UNCHANGED <<clockVars, limiterVars, mu, waits>>
    /\ UNCHANGED otherVars

\* a goroutine calls Save
SaveCall(p) ==
    /\ pc[p] = "idle"
    /\ ConfigMoves(p, "Save.Lock", [op |-> "Save", err |-> NotCalled], rw, providers)

\* line 166: c.mu.Lock(), in a call of Save and in the Save that
\* UpdateProviderConfig calls
SaveLock(p) ==
    /\ pc[p] \in {"Save.Lock", "UpdateProviderConfig.Save.Lock"}
    /\ LockReady
    /\ ConfigMoves(p, "Save.Unlock", ret[p], [rw EXCEPT !.writer = p], providers)

\* lines 167-178: the file is written, Save unlocks and returns, and so
\* does the UpdateProviderConfig that called it
SaveReturn(p, written) ==
    /\ pc[p] = "Save.Unlock"
    /\ ConfigMoves(p, "idle", [ret[p] EXCEPT !.err = written],
                   [rw EXCEPT !.writer = 0], providers)

\* a goroutine calls GetProviderConfig
GetProviderConfigCall(p, name) ==
    /\ pc[p] = "idle"
    /\ ConfigMoves(p, "GetProviderConfig.RLock",
                   [op |-> "GetProviderConfig", name |-> name, err |-> NotCalled],
                   rw, providers)

\* line 183: c.mu.RLock()
GetProviderConfigRLock(p) ==
    /\ pc[p] = "GetProviderConfig.RLock"
    /\ RLockReady
    /\ ConfigMoves(p, "GetProviderConfig.RUnlock", ret[p],
                   [rw EXCEPT !.readers = @ + 1], providers)

\* lines 184-192
GetProviderConfigReturn(p) ==
    /\ pc[p] = "GetProviderConfig.RUnlock"
    /\ ConfigMoves(p, "idle",
                   [ret[p] EXCEPT !.err =
                        IF ret[p].name \in DOMAIN providers THEN NoError
                        ELSE ErrConfiguration("provider not found")],
                   [rw EXCEPT !.readers = @ - 1], providers)

\* a goroutine calls UpdateProviderConfig
UpdateProviderConfigCall(p, name, config) ==
    /\ pc[p] = "idle"
    /\ ConfigMoves(p, "UpdateProviderConfig.Lock",
                   [op |-> "UpdateProviderConfig", name |-> name,
                    config |-> config, err |-> NotCalled],
                   rw, providers)

\* lines 196-200: c.mu.Lock(), c.Providers[name] = config, and the call of
\* c.Save() with the lock held
UpdateProviderConfigLock(p) ==
    /\ pc[p] = "UpdateProviderConfig.Lock"
    /\ LockReady
    /\ ConfigMoves(p, "UpdateProviderConfig.Save.Lock", ret[p],
                   [rw EXCEPT !.writer = p],
                   (ret[p].name :> ret[p].config) @@ providers)

\* a step of a call of goroutine p that is under way
ConfigStep(p) ==
    \/ SaveLock(p)
    \/ \E written \in WriteResults : SaveReturn(p, written)
    \/ GetProviderConfigRLock(p)
    \/ GetProviderConfigReturn(p)
    \/ UpdateProviderConfigLock(p)

NextConfigLock ==
    \/ \E p \in Callers : SaveCall(p)
    \/ \E p \in Callers, name \in ProviderNames : GetProviderConfigCall(p, name)
    \/ \E p \in Callers, name \in ProviderNames, config \in ProviderConfigs :
            UpdateProviderConfigCall(p, name, config)
    \/ \E p \in Callers : SaveLock(p)
    \/ \E p \in Callers, written \in WriteResults : SaveReturn(p, written)
    \/ \E p \in Callers : GetProviderConfigRLock(p)
    \/ \E p \in Callers : GetProviderConfigReturn(p)
    \/ \E p \in Callers : UpdateProviderConfigLock(p)

\* every goroutine that can take a step is scheduled
SpecConfigLock ==
    /\ InitConfigLock
    /\ [][NextConfigLock]_vars
    /\ \A p \in Callers : WF_vars(ConfigStep(p))

\* C39: UpdateProviderConfig terminates: while a call on the configuration
\* is under way some goroutine can take its next step, and a call of
\* UpdateProviderConfig that has stored its setting goes on to return.
C39_UpdateTerminates ==
    /\ (\E p \in Callers : pc[p] # "idle")
            => \E q \in Callers : ENABLED ConfigStep(q)
    /\ \A p \in Callers :
            pc[p] = "UpdateProviderConfig.Save.Lock" => rw.writer # p

\* C39, the part that holds: the setting is stored under the write lock
C39_StoredUnderLock ==
    \A p \in Callers :
        pc[p] = "UpdateProviderConfig.Save.Lock"
            => /\ rw = [readers |-> 0, writer |-> p]
               /\ ret[p].name \in DOMAIN providers
               /\ providers[ret[p].name] = ret[p].config

\* C39, as a liveness property: every call of UpdateProviderConfig returns
C39_UpdateReturns ==
    \A p \in Callers :
        (pc[p] = "UpdateProviderConfig.Lock") ~> (pc[p] = "idle")

----------------------------------------------------------------------------
(* pkg/types: the safety validator *)

MaxFragments == 2

ErrValidation(message) == [Type |-> "validation_error", Message |-> message]
ErrPermission(message) == [Type |-> "permission_error", Message |-> message]

dangerousCommands ==
    <<<<"r","m"," ","-","r","f">>, <<"r","m","d","i","r"," ","/","s">>,
      <<"d","e","l"," ","/","f">>, <<"f","o","r","m","a","t">>,
      <<"m","k","f","s">>,
      <<":","(",")","{",":","|",":","&","}",";",":">>,
      <<"d","d">>, <<">"," ","/","d","e","v","/","s","d","a">>,
      <<"c","h","m","o","d"," ","-","R"," ","7","7","7">>>>

adminCommands ==
    <<<<"n","e","t"," ","u","s","e","r">>,
      <<"n","e","t"," ","l","o","c","a","l","g","r","o","u","p">>,
      <<"r","e","g"," ","a","d","d">>, <<"r","e","g"," ","d","e","l","e","t","e">>,
      <<"s","c"," ">>, <<"b","c","d","e","d","i","t">>>>

criticalPaths ==
    <<<<"/","e","t","c","/">>, <<"/","u","s","r","/">>, <<"/","v","a","r","/">>,
      <<"/","b","i","n","/">>, <<"/","s","b","i","n","/">>,
      <<"C",":","\\","W","i","n","d","o","w","s","\\">>,
      <<"C",":","\\","P","r","o","g","r","a","m"," ","F","i","l","e","s","\\">>>>

Sudo == <<"s","u","d","o"," ">>
Su == <<"s","u"," ">>

OperatingSystems == {"linux", "windows"}

\* the classification without the protected paths
IsPrivilegedOperation_NoPaths(cmd, os) ==
    LET c == TrimSpace(cmd)
    IN  \/ HasPrefix(c, Sudo)
        \/ HasPrefix(c, Su)
        \/ /\ os = "windows"
           /\ \E i \in 1..Len(adminCommands) :
                    HasPrefix(ToLower(c), ToLower(adminCommands[i]))

IsPrivilegedOperation(cmd, os) ==
    LET c == TrimSpace(cmd)
    IN  \/ HasPrefix(c, Sudo)
        \/ HasPrefix(c, Su)
        \/ /\ os = "windows"
           /\ \E i \in 1..Len(adminCommands) :
                    HasPrefix(ToLower(c), ToLower(adminCommands[i]))
        \/ \E i \in 1..Len(criticalPaths) : Contains(c, criticalPaths[i])

\* the deny-list in lower case
dangerousLower ==
    [i \in 1..Len(dangerousCommands) |-> ToLower(dangerousCommands[i])]

\* the entries of the deny-list that occur in the lower-cased command
Dangerous(lower) ==
    {i \in 1..Len(dangerousCommands) : Contains(lower, dangerousLower[i])}

EmptyCommandText == <<"e","m","p","t","y"," ","c","o","m","m","a","n","d">>
DangerousText == <<"p","o","t","e","n","t","i","a","l","l","y"," ","d","a","n","g","e","r","o","u","s"," ","c","o","m","m","a","n","d"," ","d","e","t","e","c","t","e","d",":"," ">>
PrivilegesText == <<"t","h","i","s"," ","c","o","m","m","a","n","d"," ","r","e","q","u","i","r","e","s"," ","e","l","e","v","a","t","e","d"," ","p","r","i","v","i","l","e","g","e","s">>

\* the privilege check made before the deny-list
Verdict_PrivilegeFirst(c, os, hits) ==
    IF c = <<>> THEN ErrValidation(EmptyCommandText)
    ELSE IF /\ IsPrivilegedOperation(c, os)
            /\ ~HasPrefix(c, Sudo)
            /\ os # "windows"
    THEN ErrPermission(PrivilegesText)
    ELSE IF hits # {}
    THEN ErrPermission(DangerousText \o dangerousCommands[SetMin(hits)])
    ELSE NoError

\* every privileged command refused, the ones that begin with sudo too
Verdict_NoSudoExemption(c, os, hits) ==
    IF c = <<>> THEN ErrValidation(EmptyCommandText)
    ELSE IF hits # {}
    THEN ErrPermission(DangerousText \o dangerousCommands[SetMin(hits)])
    ELSE IF IsPrivilegedOperation(c, os) /\ os # "windows"
    THEN ErrPermission(PrivilegesText)
    ELSE NoError

\* lines 314-341 of ValidateCommand, for the trimmed command c and the
\* deny-list entries it contains: the first entry in list order is the one
\* the loop returns
Verdict(c, os, hits) ==
    IF c = <<>> THEN ErrValidation(EmptyCommandText)
    ELSE IF hits # {}
    THEN ErrPermission(DangerousText \o dangerousCommands[SetMin(hits)])
    ELSE IF /\ IsPrivilegedOperation(c, os)
            /\ ~HasPrefix(c, Sudo)
            /\ os # "windows"
    THEN ErrPermission(PrivilegesText)
    ELSE NoError

ValidateCommand(cmd, os) ==
    Verdict(TrimSpace(cmd), os, Dangerous(ToLower(TrimSpace(cmd))))

----------------------------------------------------------------------------
(* ValidateCommand applied to one command on one platform *)

Fragments ==
    {Sudo, Su,
     <<"r","m"," ","-","r","f"," ","/","v","a","r","/","l","o","g">>,
     <<"R","M"," ","-","R","F">>, <<"a","p","t"," ","u","p","d","a","t","e">>,
     <<"c","a","t"," ","/","e","t","c","/","h","o","s","t","s">>, <<"l","s">>,
     <<"g","i","t"," ","a","d","d"," ",".">>, <<"m","k","f","s">>,
     <<"F","o","r","m","a","t">>, <<" ">>, <<"\t">>,
     <<"n","e","t"," ","u","s","e","r">>,
     <<"c","h","m","o","d"," ","-","r"," ","7","7","7">>}

RECURSIVE CommandsOf(_)
CommandsOf(n) ==
    IF n = 0 THEN {<<>>}
    ELSE CommandsOf(n - 1)
            \cup {c \o f : c \in CommandsOf(n - 1), f \in Fragments}

Commands == CommandsOf(MaxFragments)

NotValidated == [Type |-> "none"]

InitValidate ==
    /\ now = 0
    /\ steps = 0
    /\ limiter = NewRateLimiter(ModelConfig, now)
    /\ lastCall = NoCall
    /\ windowAdmits = 0
    /\ admissions = <<>>
    /\ dayAdmits = 0
    /\ CallersIdle
    /\ NoProvider
    /\ NoExtraction
    /\ NoSession
    /\ goos \in OperatingSystems
    /\ command \in Commands
    /\ verdict = NotValidated
    /\ executor = <<>>
    /\ started = <<>>
    /\ lastExec = <<>>

Validate ==
    /\ verdict' = ValidateCommand(command, goos)
    /\ UNCHANGED <<goos, command, executor, started, lastExec>>
    /\ UNCHANGED <<clockVars, limiterVars, callerVars, sessionVars, extractVars, providerVars>>

NextValidate == Validate

SpecValidate == InitValidate /\ [][NextValidate]_vars

----------------------------------------------------------------------------
(* The configuration's check of a generated command: Config.ValidateCommand *)

\* the defaults of DisallowedCommands and ProtectedPaths
DisallowedCommands ==
    <<<<"r","m"," ","-","r","f"," ","/">>,
      <<"m","k","f","s">>,
      <<"d","d"," ","i","f","=","/","d","e","v","/","z","e","r","o">>>>

ProtectedPaths ==
    <<<<"/","e","t","c">>, <<"/","v","a","r">>, <<"/","u","s","r">>,
      <<"/","b","o","o","t">>, <<"/","r","o","o","t">>>>

NotAllowedText ==
    <<"c","o","m","m","a","n","d"," ","i","s"," ","n","o","t"," ","a",
      "l","l","o","w","e","d",":"," ">>
ProtectedPathText ==
    <<"c","o","m","m","a","n","d"," ","a","f","f","e","c","t","s"," ",
      "p","r","o","t","e","c","t","e","d"," ","p","a","t","h",":",
      " ">>

\* containsPath: the body is "return false"
containsPath(cmd, path) == FALSE

\* Config.ValidateCommand
ConfigValidateCommand(cmd) ==
    LET disallowed == {i \in 1..Len(DisallowedCommands) :
                            cmd = DisallowedCommands[i]}
        protected == {i \in 1..Len(ProtectedPaths) :
                            containsPath(cmd, ProtectedPaths[i])}
    IN  IF disallowed # {} THEN ErrPermission(NotAllowedText \o cmd)
        ELSE IF protected # {}
        THEN ErrPermission(ProtectedPathText \o ProtectedPaths[SetMin(protected)])
        ELSE NoError

\* the texts a generated command is made of
ConfigFragments ==
    {<<"r","m"," ","-","r","f"," ","/">>, <<"m","k","f","s">>,
     <<"d","d"," ","i","f","=","/","d","e","v","/","z","e","r","o">>,
     <<"e","t","c">>, <<"l","s">>,
     <<" ">>, <<"v","a","r","/","l","o","g">>,
     <<"c","a","t"," ","/","e","t","c","/","p","a","s","s","w","d">>,
     <<"t","o","u","c","h"," ","/","r","o","o","t","/","x">>}

RECURSIVE GeneratedOf(_)
GeneratedOf(n) ==
    IF n = 0 THEN {<<>>}
    ELSE GeneratedOf(n - 1)
            \cup {c \o f : c \in GeneratedOf(n - 1), f \in ConfigFragments}

Generated == GeneratedOf(MaxFragments)

InitConfig ==
    /\ now = 0
    /\ steps = 0
    /\ limiter = NewRateLimiter(ModelConfig, now)
    /\ lastCall = NoCall
    /\ windowAdmits = 0
    /\ admissions = <<>>
    /\ dayAdmits = 0
    /\ CallersIdle
    /\ NoProvider
    /\ NoExtraction
    /\ NoSession
    /\ goos = "linux"
    /\ command \in Generated
    /\ verdict = NotValidated
    /\ executor = <<>>
    /\ started = <<>>
    /\ lastExec = <<>>

\* Terma.Execute, line 372: the generated command is put to the configuration
ConfigValidate ==
    /\ verdict' = ConfigValidateCommand(command)
    /\ UNCHANGED <<goos, command, executor, started, lastExec>>
    /\ UNCHANGED <<clockVars, limiterVars, callerVars, sessionVars, extractVars, providerVars>>

NextConfig == ConfigValidate

SpecConfig == InitConfig /\ [][NextConfig]_vars

\* the command names one of the protected paths
AffectsProtectedPath(cmd) ==
    \E i \in 1..Len(ProtectedPaths) : Contains(cmd, ProtectedPaths[i])

\* C32: Config.ValidateCommand returns a permission error for every command
\* that is one of the disallowed commands or that affects one of the
\* protected paths.
C32_ProtectedRejected ==
    verdict # NotValidated =>
        ((\/ \E i \in 1..Len(DisallowedCommands) : command = DisallowedCommands[i]
          \/ AffectsProtectedPath(command))
            => verdict.Type = "permission_error")

\* the same for the disallowed commands alone
C32_DisallowedRejected ==
    verdict # NotValidated =>
        ((\E i \in 1..Len(DisallowedCommands) : command = DisallowedCommands[i])
            <=> verdict.Type = "permission_error")

\* the deny-list entries that occur somewhere in the lower-cased text
EntriesIn(lower) ==
    {i \in 1..Len(dangerousCommands) :
        \E k \in 1..Len(lower) : HasAt(lower, k, dangerousLower[i])}

\* what the rules say of the trimmed command c that contains the entries hits
DeniedInOrder(c, hits, v) ==
    /\ c = <<>> =>
        /\ v.Type = "validation_error"
        /\ v.Message = EmptyCommandText
    /\ (c # <<>> /\ hits # {}) =>
        /\ v.Type = "permission_error"
        /\ v.Message = DangerousText \o dangerousCommands[SetMin(hits)]

\* C9: an empty or whitespace-only command is denied with the reason "empty
\* command"; any other command that contains a deny-list entry, compared
\* without regard to case, is denied with a permission error whose reason
\* names the first such entry in list order, whether or not the command
\* begins with sudo or is privileged.
C9_RuleOrder ==
    verdict # NotValidated =>
        DeniedInOrder(TrimSpace(command),
                      EntriesIn(ToLower(TrimSpace(command))), verdict)

\* "sudo rm -rf /var/log" was denied for the deny-list entry "rm -rf"
C9_Witness ==
    /\ command = <<"s","u","d","o"," ","r","m"," ","-","r","f"," ","/","v","a","r","/","l","o","g">>
    /\ goos = "linux"
    /\ verdict.Type = "permission_error"
    /\ verdict.Message = DangerousText \o <<"r","m"," ","-","r","f">>

\* C10: off Windows, every command that begins with "sudo " and contains no
\* deny-list entry is allowed, commands that name protected system paths
\* included.
C10_SudoAllowed ==
    (/\ verdict # NotValidated
     /\ goos # "windows"
     /\ HasPrefix(command, Sudo)
     /\ EntriesIn(ToLower(command)) = {})
        => verdict = NoError

\* "sudo cat /etc/hosts", which names a protected path, was allowed
C10_Witness ==
    /\ command = <<"s","u","d","o"," ","c","a","t"," ","/","e","t","c","/","h","o","s","t","s">>
    /\ goos = "linux"
    /\ verdict = NoError

\* the trimmed command c begins with "su " or names a protected path
NeedsPrivileges(c) ==
    \/ HasPrefix(c, Su)
    \/ \E i \in 1..Len(criticalPaths) :
            \E k \in 1..Len(c) : HasAt(c, k, criticalPaths[i])

\* what the privilege rule says of the non-empty trimmed command c that
\* contains no deny-list entry
PrivilegeRule(c, os, v) ==
    IF os = "windows" THEN v = NoError
    ELSE IF NeedsPrivileges(c) /\ ~HasPrefix(c, Sudo)
    THEN /\ v.Type = "permission_error"
         /\ v.Message = PrivilegesText
    ELSE v = NoError

\* C11: a non-empty command that contains no deny-list entry is, off
\* Windows, denied with the reason "this command requires elevated
\* privileges" when it begins with "su " or names a protected path and does
\* not begin with "sudo ", and allowed otherwise; on Windows it is allowed,
\* and no command at all is denied there for the privilege reason.
C11_PrivilegeRule ==
    verdict # NotValidated =>
        /\ (/\ TrimSpace(command) # <<>>
            /\ EntriesIn(ToLower(TrimSpace(command))) = {})
                => PrivilegeRule(TrimSpace(command), goos, verdict)
        /\ goos = "windows" =>
                (verdict = NoError \/ verdict.Message # PrivilegesText)

\* "cat /etc/hosts" was denied on linux for want of privileges
C11_Witness ==
    /\ command = <<"c","a","t"," ","/","e","t","c","/","h","o","s","t","s">>
    /\ goos = "linux"
    /\ verdict = ErrPermission(PrivilegesText)

----------------------------------------------------------------------------
(* pkg/types: CommandExecutor.Execute, and the confirmation prompt of the *)
(* CLI (cmd/craftcom), the only caller of Execute                         *)

MaxRuns == 2

ShellCommands ==
    {<<>>, <<"l","s"," ","-","l","a">>,
     <<"r","m"," ","-","r","f"," ","/","v","a","r","/","l","o","g">>,
     <<"c","a","t"," ","/","e","t","c","/","h","o","s","t","s">>}

\* what cmd.CombinedOutput may return: the output, the error, the exit code
ProcessOutcomes ==
    {[Output |-> <<"o","k">>, err |-> NoError, ExitCode |-> 0],
     [Output |-> <<"f","a","i","l","e","d">>,
      err |-> [Type |-> "ExitError", Message |-> <<"e","x","i","t"," ","s","t","a","t","u","s"," ","1">>],
      ExitCode |-> 1]}

\* what the confirmation prompt may return: the text typed and the error
Answers == {<<"y">>, <<"Y">>, <<"n">>}
PromptErrors == {"nil", "abort"}

\* CustomError.Error(), and the Error() of the errors of os/exec
ErrorText(err) ==
    CASE err = NoError -> <<>>
      [] err.Type = "validation_error" ->
            <<"v","a","l","i","d","a","t","i","o","n","_","e","r","r","o","r",":"," ">> \o err.Message
      [] err.Type = "permission_error" ->
            <<"p","e","r","m","i","s","s","i","o","n","_","e","r","r","o","r",":"," ">> \o err.Message
      [] OTHER -> err.Message

NewCommandExecutor == [history |-> <<>>]

\* if err := e.ValidateCommand(command); err != nil { ... return history, err }
MayStart_Always(err) == TRUE

MayStart(err) == err = NoError

\* the shell the command is handed to
Shell(os) == IF os = "windows" THEN "cmd /C" ELSE "sh -c"

CommandHistory(cmd, output, exitCode, startTime, endTime, err) ==
    [Command |-> cmd, Output |-> output, ExitCode |-> exitCode,
     StartTime |-> startTime, EndTime |-> endTime, Error |-> err]

\* lines 275-308 of Execute, once ValidateCommand has returned err
Run(e, cmd, os, outcome, t, err) ==
    IF ~MayStart(err)
    THEN [executor |-> [e EXCEPT !.history =
                Append(@, CommandHistory(cmd, <<>>, 0, t, t, ErrorText(err)))],
          err |-> err,
          launched |-> <<>>]
    ELSE [executor |-> [e EXCEPT !.history =
                Append(@, CommandHistory(cmd, outcome.Output,
                            outcome.ExitCode, t, t, ErrorText(outcome.err)))],
          err |-> outcome.err,
          launched |-> <<[Shell |-> Shell(os), Command |-> cmd]>>]

\* Execute on executor e: the executor afterwards, the error returned, and
\* the process started, if one was
Execute(e, cmd, os, outcome, t) ==
    Run(e, cmd, os, outcome, t, ValidateCommand(cmd, os))

NoExec == [via |-> "none", reached |-> FALSE]

InitExec ==
    /\ now = 0
    /\ steps = 0
    /\ limiter = NewRateLimiter(ModelConfig, now)
    /\ lastCall = NoCall
    /\ windowAdmits = 0
    /\ admissions = <<>>
    /\ dayAdmits = 0
    /\ CallersIdle
    /\ NoProvider
    /\ NoExtraction
    /\ NoSession
    /\ goos \in OperatingSystems
    /\ command = <<>>
    /\ verdict = NotValidated
    /\ executor = NewCommandExecutor
    /\ started = <<>>
    /\ lastExec = NoExec

\* handleExecute: the session suggested a command
Suggest(cmd) ==
    /\ command' = cmd
    /\ lastExec' = NoExec
    /\ UNCHANGED <<goos, verdict, executor, started>>
    /\ UNCHANGED <<clockVars, limiterVars, callerVars, sessionVars, extractVars, providerVars>>

\* the effect of one call of Execute on the state
Executed(via, answer, promptErr, e, run) ==
    /\ executor' = run.executor
    /\ started' = started \o run.launched
    /\ lastExec' = [via |-> via, reached |-> TRUE, command |-> command,
                    answer |-> answer, promptErr |-> promptErr,
                    err |-> run.err, startedBefore |-> Len(started),
                    historyBefore |-> Len(e.history)]

\* the return of confirmAndExecute before Execute is reached
NotExecuted(answer, promptErr, err) ==
    /\ lastExec' = [via |-> "cli", reached |-> FALSE, command |-> command,
                    answer |-> answer, promptErr |-> promptErr,
                    err |-> err, startedBefore |-> Len(started),
                    historyBefore |-> Len(executor.history)]
    /\ UNCHANGED <<executor, started>>

\* Execute called on the executor at hand
DoExecute(outcome) ==
    /\ Len(executor.history) < MaxRuns
    /\ Len(started) < MaxRuns
    /\ Executed("api", <<>>, "nil", executor,
                Execute(executor, command, goos, outcome, now))
    /\ UNCHANGED <<goos, command, verdict>>
    /\ UNCHANGED <<clockVars, limiterVars, callerVars, sessionVars, extractVars, providerVars>>

\* confirmAndExecute: the prompt, a new executor, Execute
ConfirmAndExecute ==
    /\ Len(started) < MaxRuns
    /\ \/ \E answer \in Answers, promptErr \in PromptErrors :
            /\ promptErr # "nil" \/ ToLower(answer) # <<"y">>
            /\ NotExecuted(answer, promptErr, NoError)
       \/ \E answer \in Answers :
            /\ ToLower(answer) = <<"y">>
            /\ NotExecuted(answer, "nil", [Type |-> "error", Message |->
                    <<"f","a","i","l","e","d"," ","t","o"," ","c","r","e","a","t","e"," ","c","o","m","m","a","n","d"," ","e","x","e","c","u","t","o","r">>])
       \/ \E answer \in Answers, outcome \in ProcessOutcomes :
            /\ ToLower(answer) = <<"y">>
            /\ Executed("cli", answer, "nil", NewCommandExecutor,
                    Execute(NewCommandExecutor, command, goos, outcome, now))
    /\ UNCHANGED <<goos, command, verdict>>
    /\ UNCHANGED <<clockVars, limiterVars, callerVars, sessionVars, extractVars, providerVars>>

NextExec ==
    \/ \E cmd \in ShellCommands : Suggest(cmd)
    \/ \E outcome \in ProcessOutcomes : DoExecute(outcome)
    \/ ConfirmAndExecute

SpecExec == InitExec /\ [][NextExec]_vars

\* C8: Execute starts the process only if ValidateCommand returned no error,
\* and then with the command it was given; a denied command is not run, its
\* denial is returned to the caller and recorded as one history entry that
\* carries the error; and the CLI reaches Execute only after the prompt
\* returned without error an answer that is "y" (in either case).
C8_ValidatedBeforeRun ==
    /\ \A i \in 1..Len(started) :
            ValidateCommand(started[i].Command, goos) = NoError
    /\ lastExec.reached =>
        /\ Len(started) > lastExec.startedBefore =>
            /\ ValidateCommand(lastExec.command, goos) = NoError
            /\ Len(started) = lastExec.startedBefore + 1
            /\ started[Len(started)].Command = lastExec.command
        /\ ValidateCommand(lastExec.command, goos) # NoError =>
            /\ Len(started) = lastExec.startedBefore
            /\ lastExec.err = ValidateCommand(lastExec.command, goos)
            /\ Len(executor.history) = lastExec.historyBefore + 1
            /\ executor.history[Len(executor.history)].Command
                    = lastExec.command
            /\ executor.history[Len(executor.history)].Error
                    = ErrorText(ValidateCommand(lastExec.command, goos))
            /\ executor.history[Len(executor.history)].Error # <<>>
        /\ lastExec.via = "cli" =>
            /\ lastExec.promptErr = "nil"
            /\ lastExec.answer \in {<<"y">>, <<"Y">>}

\* the user confirmed a command of the deny-list and Execute refused it
C8_Witness ==
    /\ lastExec.reached
    /\ lastExec.via = "cli"
    /\ lastExec.command = <<"r","m"," ","-","r","f"," ","/","v","a","r","/","l","o","g">>
    /\ lastExec.err.Type = "permission_error"
    /\ Len(started) > 0

====
